---- MODULE Spec2Model ----
(***************************************************************************)
(* Vison30X Telegram bot: daily manifestation rotation (bot/manifestation, *)
(* bot/manifestation_for_her), card draw and reveal (bot/cards), the       *)
(* /clear_cache command (bot/handlers) and the gamification store          *)
(* (bot/gamify).                                                           *)
(*                                                                         *)
(* Calendar dates are day ordinals 1, 2, ... (day 1 is 2025-01-01); the    *)
(* ISO string a date is persisted as is in one-to-one correspondence with  *)
(* the ordinal, so the persisted "date" field holds the ordinal.  A        *)
(* manifestation (a dict of the pool) is denoted by its position in the    *)
(* pool list, 1..Len(pool); NoneVal is Python's None.                      *)
(***************************************************************************)
EXTENDS Integers, Sequences, FiniteSets, TLC

PoolSize == 3
MaxDay == 3

NoneVal == 0

VARIABLES
    today,            \* the local calendar date (_today_local_date)
    chatId,           \* TRUE iff the CHAT_ID environment variable is set
    chatIdHer,        \* TRUE iff CHAT_ID_HER is set
    procZone,         \* the time zone of the process (of datetime.now())
    dataDir,          \* TRUE iff V30X_DATA_DIR is set
    mans,             \* contents of data/manifestations.json
    usedFile,         \* RUNTIME_DIR/used_manifestations.json (set of ids)
    todayFile,        \* RUNTIME_DIR/today_manifestation.json: [date, id]
    cachedDate,       \* manifestation._cached_date
    cachedMan,        \* manifestation._cached_manifestation
    mansHer,          \* contents of data/manifestations_for_her.json
    usedFileHer,      \* data/used_manifestations_for_her.json
    cachedTodayHer,   \* manifestation_for_her._cached_today
    cachedManHer,     \* manifestation_for_her._cached_manifestation
    herPick,          \* history: [date, man] of the latest pick for "her"
    cards,            \* contents of data/cards.json
    todayCardFile,    \* RUNTIME_DIR/today_card.json: [date, id]
    last,             \* what the last operation did (observation only)
    lockHolder,       \* manifestation._lock: the caller holding it, or NoneVal
    pc,               \* concurrent callers of get_today_manifestation
    snap,             \* what each caller read (its local variables)
    ret,              \* what each caller returned
    pickLog,          \* history: the picks made, [man, saved, before]
    now,              \* the clock (datetime.utcnow), in minutes
    users,            \* table gamify_users: user -> [exists, xp, level]
    calls,            \* table calls: the committed rows
    sessions,         \* gamify._incall_sessions
    glast,            \* what the last gamify command did (observation only)
    gamifyTables,     \* TRUE iff the tables of bot/gamify's database exist
    tod,              \* the time of day, in seconds since local midnight
    focusSessions,    \* table focus_sessions (bot/db): row i has id i
    focusDaily,       \* table focus_daily: the rows, keyed (user_id, local_date)
    focusStreaks,     \* table focus_streaks: user -> [exists, target_per_day,
                      \*   last_date, streak_days]
    dbUsers,          \* table users (bot/db): the user ids present
    pomodoros,        \* table pomodoros (bot/gamify): the committed rows
    prompts,          \* ids of the sessions whose end prompt shows its buttons
    onceJobs,         \* JobQueue: the pending run_once jobs
    starting,         \* start_pomodoro calls awaiting their send_message
    queries,          \* callback queries of pressed buttons, not yet handled
    answering,        \* prompt callbacks awaiting their q.answer()
    editing,          \* prompt callbacks awaiting their edit_message_text
    flast,            \* what the last focus operation did (observation only)
    tzone,            \* the V30X_TZ zone of bot/scheduler (TZ)
    clockShift,       \* seconds the wall clock of TZ has been set back
    herOffsetEnv,     \* the V30X_MANIFEST_HER_OFFSET environment variable
    remindersMod,     \* what "import bot.reminders" finds
    jobs,             \* JobQueue: the run_daily jobs, in registration order
    pending,          \* the card function a running card job calls next
    dayLog,           \* history: the run_daily jobs that ran today, in order
    slast             \* what the last scheduler step did (observation only)

envVars == <<chatId, chatIdHer, dataDir, procZone>>
meVars == <<mans, usedFile, todayFile, cachedDate, cachedMan>>
herVars == <<mansHer, usedFileHer, cachedTodayHer, cachedManHer, herPick>>
cardVars == <<cards, todayCardFile>>

concVars == <<lockHolder, pc, snap, ret, pickLog>>

gamVars == <<now, users, calls, sessions, glast, gamifyTables>>

focusVars == <<focusSessions, focusDaily, focusStreaks, dbUsers, pomodoros,
               prompts, queries, starting, answering, editing,
               flast>>

schedVars == <<tod, onceJobs>>

jobVars == <<tzone, clockShift, herOffsetEnv, remindersMod, jobs, pending,
             dayLog, slast>>

otherVars == <<focusVars, schedVars, jobVars>>

vars == <<today, envVars, meVars, herVars, cardVars, last, concVars, gamVars,
          otherVars>>

(***************************************************************************)
(* Content pools.                                                          *)
(***************************************************************************)
\* A well-formed pool: ids 1..PoolSize; the first entry's "set" has only two
\* lines, the others three.
GoodPool == [i \in 1..PoolSize |-> [id |-> i, setLen |-> IF i = 1 THEN 2 ELSE 3]]

\* A pool whose last entry has no "id" (m.get("id") is None).
BadPool == [i \in 1..PoolSize |->
              [id |-> IF i = PoolSize THEN NoneVal ELSE i, setLen |-> 3]]

\* load_manifestations returns [] when the file is missing or malformed.
EmptyPool == << >>

NoFile == [date |-> NoneVal, id |-> NoneVal]

\* a card without "id" (c.get("id") is None)
NoId == <<"none">>

\* cards.json: every card has a title; the last one has no id, so its title
\* is the identifier send_card_prompt persists.
CardPool == [i \in 1..PoolSize |->
               [id |-> IF i = PoolSize THEN NoId ELSE <<"id", i>>,
                title |-> <<"title", i>>]]

NoCardFile == [date |-> NoneVal, id |-> NoId]

(***************************************************************************)
(* Deterministic fallback: sha256(f"{today}|{salt}")[:8] as a big-endian   *)
(* integer, modulo the pool length.  The digests are those of the keys     *)
(* "2025-01-01|1000", "2025-01-02|1000", ... (CHAT_ID=1000) and            *)
(* "2025-01-01|", ... (CHAT_ID unset).                                     *)
(***************************************************************************)
DigestChat == <<
    <<187, 29, 127, 105, 11, 22, 235, 243>>,
    <<171, 148, 147, 197, 105, 233, 58, 248>>,
    <<12, 97, 74, 141, 170, 240, 21, 110>>,
    <<226, 173, 114, 217, 158, 252, 9, 233>>,
    <<78, 149, 183, 202, 155, 61, 80, 177>>,
    <<172, 223, 11, 152, 163, 172, 160, 221>>,
    <<87, 203, 102, 39, 230, 149, 108, 174>>,
    <<181, 218, 213, 228, 144, 153, 116, 50>> >>

DigestNoChat == <<
    <<48, 129, 95, 92, 72, 250, 253, 251>>,
    <<238, 199, 189, 142, 5, 41, 200, 57>>,
    <<94, 183, 39, 193, 99, 25, 213, 99>>,
    <<235, 136, 83, 21, 42, 34, 240, 5>>,
    <<98, 88, 53, 148, 75, 14, 131, 210>>,
    <<102, 101, 53, 180, 9, 128, 146, 104>>,
    <<113, 183, 24, 119, 159, 11, 215, 74>>,
    <<153, 47, 7, 117, 16, 235, 174, 206>> >>

\* int.from_bytes(bytes, "big") % n, by Horner's rule
RECURSIVE BytesMod(_, _, _)
BytesMod(bytes, n, acc) ==
    IF bytes = << >> THEN acc
    ELSE BytesMod(Tail(bytes), n, (acc * 256 + Head(bytes)) % n)

\* position (1-based) of the entry deterministic_choice_by_date returns
deterministic_choice_by_date(pool, day, chatSet) ==
    LET h == IF chatSet THEN DigestChat[day] ELSE DigestNoChat[day]
    IN  BytesMod(h, Len(pool), 0) + 1

(***************************************************************************)
(* bot/manifestation.py                                                    *)
(***************************************************************************)
\* int(m.get("id")) raises TypeError for an entry without id
HasBadId(pool) == \E i \in 1..Len(pool) : pool[i].id = NoneVal

\* Mutant of Unused: the draw ignores the used ids.
UnusedIgnoringUsed(pool, used) == 1..Len(pool)

\* the list random.choice draws from in pick_new_manifestation
Unused(pool, used) ==
    LET unused == {i \in 1..Len(pool) : pool[i].id \notin used}
    IN  IF unused = {} THEN 1..Len(pool) ELSE unused

\* the used set pick_new_manifestation holds after adding the chosen id
pick_new_manifestation(pool, used, c) ==
    LET unused == {i \in 1..Len(pool) : pool[i].id \notin used}
        base   == IF unused = {} THEN {} ELSE used
    IN  base \cup {pool[c].id}

\* Mutant of FindPersisted: the persisted id is never matched.
FindPersistedNever(pool, chosenId, i) == NoneVal

\* next((m for m in mans if int(m.get("id")) == chosen_id), None): the scan
\* stops at the first match; an entry without id met before it raises, which
\* get_today_manifestation catches.  Position found, or NoneVal.
RECURSIVE FindPersisted(_, _, _)
FindPersisted(pool, chosenId, i) ==
    IF i > Len(pool) THEN NoneVal
    ELSE IF pool[i].id = NoneVal THEN NoneVal
    ELSE IF pool[i].id = chosenId THEN i
    ELSE FindPersisted(pool, chosenId, i + 1)

\* What get_today_manifestation reads: the two files and the module cache.
MeState == [used |-> usedFile, tfile |-> todayFile, cdate |-> cachedDate,
            cman |-> cachedMan]

\* get_today_manifestation on the state st it read: the value returned (ret,
\* a pool position or NoneVal), the branch taken, and the files and cache it
\* leaves.  c is random.choice's draw; usedOk / todayOk say whether the write
\* of used_manifestations.json / today_manifestation.json succeeds.
get_today_manifestation(st, c, usedOk, todayOk) ==
    LET keep == [ret |-> NoneVal, path |-> "none", used |-> st.used,
                 tfile |-> st.tfile, cdate |-> st.cdate, cman |-> st.cman,
                 usedSaved |-> FALSE, todaySaved |-> FALSE]
        found == IF st.tfile.date = today
                 THEN FindPersisted(mans, st.tfile.id, 1) ELSE NoneVal
    IN  IF st.cdate = today /\ st.cman # NoneVal
        THEN [keep EXCEPT !.ret = st.cman, !.path = "cache"]
        ELSE IF mans = EmptyPool
        THEN keep
        ELSE IF found # NoneVal
        THEN [keep EXCEPT !.ret = found, !.path = "persisted",
                          !.cdate = today, !.cman = found]
        ELSE IF ~HasBadId(mans)
        THEN [ret |-> c, path |-> "picked",
              used |-> IF usedOk THEN pick_new_manifestation(mans, st.used, c)
                       ELSE st.used,
              tfile |-> IF todayOk THEN [date |-> today, id |-> mans[c].id]
                        ELSE st.tfile,
              cdate |-> today, cman |-> c, usedSaved |-> usedOk,
              todaySaved |-> todayOk]
        ELSE LET d == deterministic_choice_by_date(mans, today, chatId)
             IN  [ret |-> d, path |-> "deterministic", used |-> st.used,
                  tfile |-> IF todayOk /\ mans[d].id # NoneVal
                            THEN [date |-> today, id |-> mans[d].id]
                            ELSE st.tfile,
                  cdate |-> today, cman |-> d, usedSaved |-> FALSE,
                  todaySaved |-> todayOk /\ mans[d].id # NoneVal]

\* whether get_today_manifestation, having read st, reaches random.choice
WillPick(st) ==
    /\ ~(st.cdate = today /\ st.cman # NoneVal)
    /\ mans # EmptyPool
    /\ ~HasBadId(mans)
    /\ (st.tfile.date = today => FindPersisted(mans, st.tfile.id, 1) = NoneVal)

\* whether it attempts to write today_manifestation.json: in the
\* deterministic fallback int(chosen.get("id")) raises for an entry without
\* id before save_today_state_safe is called
WritesToday(st) ==
    /\ ~(st.cdate = today /\ st.cman # NoneVal)
    /\ mans # EmptyPool
    /\ (st.tfile.date = today => FindPersisted(mans, st.tfile.id, 1) = NoneVal)
    /\ HasBadId(mans) =>
          mans[deterministic_choice_by_date(mans, today, chatId)].id # NoneVal

\* Mutant of CaughtBySend: only the "no manifestation" error is caught.
CaughtBySendNarrow == {"RuntimeError"}

\* the exceptions "except Exception" catches in send_manifestation
CaughtBySend == {"RuntimeError", "IndexError", "TransportError"}

\* send_manifestation's body after get_today_manifestation returned man:
\* what is raised inside the try block ("" when nothing is)
SendRaises(pool, man, index, chatSet, transportOk) ==
    IF man = NoneVal THEN "RuntimeError"
    ELSE IF index < 0 \/ index >= pool[man].setLen THEN "IndexError"
    ELSE IF ~chatSet THEN ""
    ELSE IF ~transportOk THEN "TransportError"
    ELSE ""

SendOutcome(pool, man, index, chatSet, transportOk) ==
    LET exc == SendRaises(pool, man, index, chatSet, transportOk)
    IN  IF exc # "" THEN (IF exc \in CaughtBySend THEN "logged" ELSE "raised")
        ELSE IF ~chatSet THEN "no_chat"
        ELSE "sent"

\* The observation an operation leaves: the entry it used (man), the branch
\* that produced it (path), how the call ended (outcome), whether the used-id file and the today file were written
\* (usedSaved, todaySaved) and which recipients received the content.
Obs(op, g, outcome) ==
    [op |-> op, man |-> g.ret, path |-> g.path,
     outcome |-> outcome, usedSaved |-> g.usedSaved,
     todaySaved |-> g.todaySaved,
     toMe |-> (op = "send" /\ outcome = "sent"),
     toHer |-> (op = "send_her" /\ outcome = "sent")]

NoObs == [op |-> "init", man |-> NoneVal, path |-> "none",
          outcome |-> "none", usedSaved |-> FALSE, todaySaved |-> FALSE,
          toMe |-> FALSE, toHer |-> FALSE]

\* async def send_manifestation(app, index)
send_manifestation(index) ==
    \E c \in (IF WillPick(MeState) THEN Unused(mans, usedFile) ELSE {NoneVal}),
       usedOk \in (IF WillPick(MeState) THEN BOOLEAN ELSE {TRUE}),
       todayOk \in (IF WritesToday(MeState) THEN BOOLEAN ELSE {TRUE}),
       transportOk \in BOOLEAN :
        LET g == get_today_manifestation(MeState, c, usedOk, todayOk)
        IN  /\ usedFile' = g.used
            /\ todayFile' = g.tfile
            /\ cachedDate' = g.cdate
            /\ cachedMan' = g.cman
            /\ last' = Obs("send", g,
                           SendOutcome(mans, g.ret, index, chatId, transportOk))
            /\ UNCHANGED <<today, mans, envVars, herVars, cardVars, concVars, gamVars>>

(***************************************************************************)
(* get_today_manifestation called concurrently: the body runs inside       *)
(* "with _lock:".  A caller takes the lock, reads the cache and the files, *)
(* then picks, writes and returns, then releases the lock.                 *)
(***************************************************************************)
NumCallers == 2
Callers == 1..NumCallers

\* Mutant of LockFree: the lock is never seen as held.
LockAlwaysFree == TRUE

\* threading.Lock: acquire succeeds only while nobody holds the lock
LockFree == lockHolder = NoneVal

NoSnap == [used |-> {}, tfile |-> NoFile, cdate |-> NoneVal, cman |-> NoneVal]

\* with _lock: (entering)
Acquire(t) ==
    /\ pc[t] = "start"
    /\ LockFree
    /\ lockHolder' = t
    /\ pc' = [pc EXCEPT ![t] = "locked"]
    /\ UNCHANGED <<today, envVars, meVars, herVars, cardVars, gamVars, last, snap, ret,
                   pickLog>>

\* the reads of the body: _cached_date / _cached_manifestation,
\* load_today_state(), load_used_ids()
ReadState(t) ==
    /\ pc[t] = "locked"
    /\ snap' = [snap EXCEPT ![t] = MeState]
    /\ pc' = [pc EXCEPT ![t] = "read"]
    /\ UNCHANGED <<today, envVars, meVars, herVars, cardVars, gamVars, last, lockHolder,
                   ret, pickLog>>

\* the rest of the body: pick, save_used_ids_safe, save_today_state_safe,
\* the cache assignment and the return
PickAndStore(t) ==
    /\ pc[t] = "read"
    /\ \E c \in (IF WillPick(snap[t]) THEN Unused(mans, snap[t].used)
                 ELSE {NoneVal}),
          usedOk \in (IF WillPick(snap[t]) THEN BOOLEAN ELSE {TRUE}),
          todayOk \in (IF WritesToday(snap[t]) THEN BOOLEAN ELSE {TRUE}) :
           LET g == get_today_manifestation(snap[t], c, usedOk, todayOk)
           IN  /\ usedFile' = IF g.usedSaved THEN g.used ELSE usedFile
               /\ todayFile' = IF g.todaySaved THEN g.tfile ELSE todayFile
               /\ cachedDate' = IF g.path = "cache" THEN cachedDate ELSE g.cdate
               /\ cachedMan' = IF g.path = "cache" THEN cachedMan ELSE g.cman
               /\ ret' = [ret EXCEPT ![t] = g.ret]
               /\ pickLog' = IF g.path = "picked"
                             THEN Append(pickLog, [man |-> g.ret,
                                                   saved |-> g.usedSaved,
                                                   before |-> usedFile])
                             ELSE pickLog
    /\ pc' = [pc EXCEPT ![t] = "return"]
    /\ UNCHANGED <<today, envVars, mans, herVars, cardVars, gamVars, last,
                   lockHolder,
                   snap>>

\* leaving the with block
Release(t) ==
    /\ pc[t] = "return"
    /\ lockHolder' = IF lockHolder = t THEN NoneVal ELSE lockHolder
    /\ pc' = [pc EXCEPT ![t] = "done"]
    /\ UNCHANGED <<today, envVars, meVars, herVars, cardVars, gamVars, last, snap, ret,
                   pickLog>>

(***************************************************************************)
(* bot/manifestation_for_her.py                                            *)
(***************************************************************************)
\* the time zones the process may run in: that of _today_local_date, or UTC
ProcessZones == {"Asia/Kolkata", "UTC"}

\* how far Asia/Kolkata is ahead of UTC, in seconds (5 h 30 min)
KolkataOffset == 19800

\* datetime.now().date(): the calendar date of the process's own time zone
\* (today is the Asia/Kolkata date, tod the Asia/Kolkata time of day)
LocalDate ==
    IF procZone = "UTC" /\ tod < KolkataOffset THEN today - 1 ELSE today

\* save_used_ids of manifestation_for_her opens USED_FILE with "w" and then
\* dumps: the write succeeds, or open raises and the file is as it was, or
\* the dump raises after the open has truncated the file, which load_used_ids
\* then reads as the empty set.  The exception is caught and logged.
HerWriteOutcomes == {"saved", "open_failed", "truncated"}

\* get_today_manifestation of manifestation_for_her: only the in-process
\* cache remembers the day's choice, under the process-local date.
\* random.choice([]) raises IndexError before the cache is assigned.
get_today_manifestation_her(c, usedWrite) ==
    LET keep == [ret |-> NoneVal, path |-> "raised", used |-> usedFileHer,
                 cdate |-> cachedTodayHer, cman |-> cachedManHer,
                 usedSaved |-> FALSE, todaySaved |-> FALSE]
    IN  IF cachedTodayHer = LocalDate
        THEN [keep EXCEPT !.ret = cachedManHer, !.path = "cache"]
        ELSE IF mansHer = EmptyPool
        THEN keep
        ELSE [ret |-> c, path |-> "picked",
              used |-> IF usedWrite = "saved"
                       THEN pick_new_manifestation(mansHer, usedFileHer, c)
                       ELSE IF usedWrite = "truncated" THEN {}
                       ELSE usedFileHer,
              cdate |-> LocalDate, cman |-> c,
              usedSaved |-> (usedWrite = "saved"),
              todaySaved |-> FALSE]

WillPickHer == cachedTodayHer # LocalDate /\ mansHer # EmptyPool

\* what send_manifestation_for_her's try block raises ("" when nothing)
SendHerRaises(pool, g, index, chatSet, transportOk) ==
    IF g.path = "raised" THEN "IndexError"
    ELSE IF index >= pool[g.ret].setLen THEN "IndexError"
    ELSE IF ~chatSet THEN "TypeError"
    ELSE IF ~transportOk THEN "TransportError"
    ELSE ""

\* async def send_manifestation_for_her(app, index)
send_manifestation_for_her(index) ==
    \E c \in (IF WillPickHer THEN Unused(mansHer, usedFileHer) ELSE {NoneVal}),
       usedWrite \in (IF WillPickHer THEN HerWriteOutcomes ELSE {"saved"}),
       transportOk \in BOOLEAN :
        LET g == get_today_manifestation_her(c, usedWrite)
            exc == SendHerRaises(mansHer, g, index, chatIdHer, transportOk)
        IN  /\ usedFileHer' = g.used
            /\ cachedTodayHer' = g.cdate
            /\ cachedManHer' = g.cman
            /\ herPick' = IF g.path = "picked"
                          THEN [date |-> LocalDate, man |-> g.ret] ELSE herPick
            /\ last' = Obs("send_her", g,
                           IF exc = "" THEN "sent" ELSE "logged")
            /\ UNCHANGED <<today, mansHer, envVars, meVars, cardVars, concVars, gamVars>>

(***************************************************************************)
(* bot/cards.py                                                            *)
(***************************************************************************)
\* Mutant of FindCard: cards are matched by id only, never by title.
FindCardByIdOnly(pool, cardId, i) ==
    LET hits == {k \in i..Len(pool) : pool[k].id = cardId}
    IN  IF hits = {} THEN NoneVal ELSE CHOOSE k \in hits : \A m \in hits : k <= m

\* next((c for c in cards if c.get("title") == card_id
\*                         or c.get("id") == card_id), None)
RECURSIVE FindCard(_, _, _)
FindCard(pool, cardId, i) ==
    IF i > Len(pool) THEN NoneVal
    ELSE IF pool[i].title = cardId \/ pool[i].id = cardId THEN i
    ELSE FindCard(pool, cardId, i + 1)

\* the card today_card.json names for today, or NoneVal
PersistedCard ==
    IF todayCardFile.date = today
    THEN FindCard(cards, todayCardFile.id, 1) ELSE NoneVal

\* chosen_card.get("id") if it is not None, else chosen_card.get("title")
card_identifier(card) == IF card.id # NoId THEN card.id ELSE card.title

CardObs(op, card, path, outcome, toMe, toHer) ==
    [op |-> op, man |-> card, path |-> path, outcome |-> outcome,
     usedSaved |-> FALSE, todaySaved |-> FALSE, toMe |-> toMe,
     toHer |-> toHer]

\* async def send_card_prompt(app): draw or reuse today's card, persist a
\* new draw, announce the draw (without the card) to both recipients.
send_card_prompt ==
    \E c \in (IF cards # EmptyPool /\ PersistedCard = NoneVal
              THEN 1..Len(cards) ELSE {NoneVal}),
       saveOk \in (IF cards # EmptyPool /\ PersistedCard = NoneVal
                   THEN BOOLEAN ELSE {TRUE}),
       meOk \in BOOLEAN, herOk \in BOOLEAN :
        /\ IF cards = EmptyPool
           THEN /\ todayCardFile' = todayCardFile
                /\ last' = CardObs("prompt", NoneVal, "none", "no_cards",
                                   FALSE, FALSE)
           ELSE IF PersistedCard # NoneVal
           THEN /\ todayCardFile' = todayCardFile
                /\ last' = CardObs("prompt", PersistedCard, "persisted",
                                   IF chatId \/ chatIdHer THEN "announced"
                                   ELSE "no_chat",
                                   chatId /\ meOk, chatIdHer /\ herOk)
           ELSE /\ todayCardFile' =
                      IF saveOk
                      THEN [date |-> today, id |-> card_identifier(cards[c])]
                      ELSE todayCardFile
                /\ last' = CardObs("prompt", c, "picked",
                                   IF chatId \/ chatIdHer THEN "announced"
                                   ELSE "no_chat",
                                   chatId /\ meOk, chatIdHer /\ herOk)
        /\ UNCHANGED <<today, envVars, meVars, herVars, cards, concVars, gamVars>>

\* the card send_card_reveal renders: the persisted one, else a random one
\* (c), which it does not persist
RevealedCard(c) == IF PersistedCard # NoneVal THEN PersistedCard ELSE c

\* async def send_card_reveal(app): toMe / toHer say who received the card
\* last.man.
send_card_reveal ==
    \E c \in (IF cards # EmptyPool /\ PersistedCard = NoneVal
              THEN 1..Len(cards) ELSE {NoneVal}),
       meOk \in BOOLEAN, herOk \in BOOLEAN :
        /\ IF cards = EmptyPool
           THEN last' = CardObs("reveal", NoneVal, "none", "no_cards",
                                FALSE, FALSE)
           ELSE last' = CardObs("reveal", RevealedCard(c),
                                IF PersistedCard # NoneVal THEN "persisted"
                                ELSE "picked",
                                IF chatId \/ chatIdHer THEN "revealed"
                                ELSE "no_chat",
                                chatId /\ meOk, chatIdHer /\ herOk)
        /\ UNCHANGED <<today, envVars, meVars, herVars, cardVars, concVars, gamVars>>

(***************************************************************************)
(* bot/gamify.py: XP, call logging and in-call sessions over SQLite.       *)
(* Every helper opens its own connection (_conn()).  SQLite lets one       *)
(* connection at a time hold the write lock: a write on connection B while *)
(* connection A has an uncommitted write waits for the busy timeout and    *)
(* then raises OperationalError("database is locked").                     *)
(***************************************************************************)
NumUsers == 2
MaxClock == 2
MaxCalls == 2

Users == 1..NumUsers
Tags == {"None", "team"}
Notes == {"None", "standup"}
LogMinutes == {5, 10}

NoSession == [active |-> FALSE, start_ts |-> 0, tag |-> "None",
              notes |-> "None"]

NoGObs == [op |-> "init", user |-> NoneVal, result |-> "none", minutes |-> 0]

\* _level_from_xp
level_from_xp(xp) == (xp \div 500) + 1

\* Mutant of CanWrite: connections never block each other.
CanWriteAlways(writer, conn) == TRUE

\* whether connection conn gets SQLite's write lock while connection writer
\* (NoneVal: nobody) holds an uncommitted write
CanWrite(writer, conn) == writer = NoneVal \/ writer = conn

\* register_user: INSERT OR IGNORE + UPDATE ... COALESCE, committed
register_user(tbl, u) ==
    IF tbl[u].exists THEN tbl
    ELSE [tbl EXCEPT ![u] = [exists |-> TRUE, xp |-> 0, level |-> 1]]

\* add_xp on its own connection conn while connection writer holds the write
\* lock: the SELECT reads the committed row, the INSERT / UPDATE needs the
\* lock.  [ok, tbl]: ok is FALSE when OperationalError is raised.
add_xp(tbl, writer, conn, u, xp) ==
    IF ~CanWrite(writer, conn)
    THEN [ok |-> FALSE, tbl |-> tbl]
    ELSE IF ~tbl[u].exists
    THEN [ok |-> TRUE,
          tbl |-> [tbl EXCEPT ![u] = [exists |-> TRUE, xp |-> xp,
                                      level |-> level_from_xp(xp)]]]
    ELSE [ok |-> TRUE,
          tbl |-> [tbl EXCEPT ![u] = [exists |-> TRUE, xp |-> @.xp + xp,
                                      level |-> level_from_xp(@.xp + xp)]]]

\* log_call: INSERT INTO calls on the outer connection (1), which now holds
\* the write lock; add_xp on a second connection (2); commit.  An exception
\* leaves the "with" block through a rollback of the INSERT.
\* [ok, tbl, rows]
log_call(tbl, rows, u, minutes, start_ts, end_ts, tag, notes) ==
    LET xp == IF minutes >= 10 THEN 15 ELSE 5
        r  == add_xp(tbl, 1, 2, u, xp)
    IN  IF r.ok
        THEN [ok |-> TRUE, tbl |-> r.tbl,
              rows |-> Append(rows, [user |-> u, minutes |-> minutes,
                                     start_ts |-> start_ts, end_ts |-> end_ts,
                                     tag |-> tag, notes |-> notes])]
        ELSE [ok |-> FALSE, tbl |-> tbl, rows |-> rows]

\* Mutant of start_call_session: the "already started" test is missing.
start_call_session_overwrite(sess, u, tag, notes) ==
    [ok |-> TRUE,
     sess |-> [sess EXCEPT ![u] = [active |-> TRUE, start_ts |-> now,
                                   tag |-> tag, notes |-> notes]]]

\* start_call_session: [ok, sess]
start_call_session(sess, u, tag, notes) ==
    IF sess[u].active
    THEN [ok |-> FALSE, sess |-> sess]
    ELSE [ok |-> TRUE,
          sess |-> [sess EXCEPT ![u] = [active |-> TRUE, start_ts |-> now,
                                        tag |-> tag, notes |-> notes]]]

rotAll == <<today, envVars, meVars, herVars, cardVars, last, concVars>>

\* init_gamify_tables: CREATE TABLE IF NOT EXISTS for every table.  Nothing
\* in the bot calls it (main only runs bot/db's init_db, on another file):
\* the tables exist once whoever deploys the bot has run it.
init_gamify_tables ==
    /\ gamifyTables' = TRUE
    /\ glast' = [NoGObs EXCEPT !.op = "init_gamify_tables"]
    /\ UNCHANGED <<rotAll, now, users, calls, sessions>>

\* /log_call <minutes> [#tag] [notes].  Without the tables register_user
\* raises OperationalError ("no such table") and the handler ends there.
log_call_cmd(u, minutes, tag, notes) ==
    /\ Len(calls) < MaxCalls
    /\ LET reg == register_user(users, u)
           r   == log_call(reg, calls, u, minutes, now - minutes, now, tag, notes)
       IN  IF ~gamifyTables
           THEN /\ glast' = [op |-> "log_call", user |-> u,
                             minutes |-> minutes,
                             result |-> "OperationalError"]
                /\ UNCHANGED <<users, calls>>
           ELSE /\ users' = r.tbl
                /\ calls' = r.rows
                /\ glast' = [op |-> "log_call", user |-> u,
                             minutes |-> minutes,
                             result |-> IF r.ok THEN "ok"
                                        ELSE "OperationalError"]
    /\ UNCHANGED <<rotAll, now, sessions, gamifyTables>>

\* /start_call [#tag] [notes]: register_user, then start_call_session
start_call_cmd(u, tag, notes) ==
    /\ LET r == start_call_session(sessions, u, tag, notes)
       IN  IF ~gamifyTables
           THEN /\ glast' = [op |-> "start_call", user |-> u, minutes |-> 0,
                             result |-> "OperationalError"]
                /\ UNCHANGED <<sessions, users>>
           ELSE /\ sessions' = r.sess
                /\ users' = register_user(users, u)
                /\ glast' = [op |-> "start_call", user |-> u, minutes |-> 0,
                             result |-> IF r.ok THEN "True" ELSE "False"]
    /\ UNCHANGED <<rotAll, now, calls, gamifyTables>>

\* /my_xp: register_user, then the user's row is read and shown
my_xp_cmd(u) ==
    /\ users' = IF gamifyTables THEN register_user(users, u) ELSE users
    /\ glast' = [op |-> "my_xp", user |-> u, minutes |-> 0,
                 result |-> IF gamifyTables THEN "shown"
                            ELSE "OperationalError"]
    /\ UNCHANGED <<rotAll, now, calls, sessions, gamifyTables>>

\* /weekly_stats: register_user, then the summary is read and shown
weekly_stats_cmd(u) ==
    /\ users' = IF gamifyTables THEN register_user(users, u) ELSE users
    /\ glast' = [op |-> "weekly_stats", user |-> u, minutes |-> 0,
                 result |-> IF gamifyTables THEN "shown"
                            ELSE "OperationalError"]
    /\ UNCHANGED <<rotAll, now, calls, sessions, gamifyTables>>

\* /end_call: end_call_session pops the session, then calls log_call
end_call_cmd(u) ==
    /\ Len(calls) < MaxCalls
    /\ IF ~sessions[u].active
       THEN /\ glast' = [op |-> "end_call", user |-> u, minutes |-> 0,
                         result |-> "None"]
            /\ UNCHANGED <<sessions, users, calls>>
       ELSE LET minutes == now - sessions[u].start_ts
                r == log_call(users, calls, u, minutes, sessions[u].start_ts,
                              now, sessions[u].tag, sessions[u].notes)
                ok == gamifyTables /\ r.ok
            IN  /\ sessions' = [sessions EXCEPT ![u] = NoSession]
                /\ users' = IF ok THEN r.tbl ELSE users
                /\ calls' = IF ok THEN r.rows ELSE calls
                /\ glast' = [op |-> "end_call", user |-> u,
                             minutes |-> minutes,
                             result |-> IF ok THEN "dict"
                                        ELSE "OperationalError"]
    /\ UNCHANGED <<rotAll, now, gamifyTables>>

\* a minute passes
AdvanceClock ==
    /\ now < MaxClock
    /\ now' = now + 1
    /\ glast' = [NoGObs EXCEPT !.op = "clock"]
    /\ UNCHANGED <<rotAll, users, calls, sessions, gamifyTables>>

(***************************************************************************)
(* bot/db.py and bot/focus.py: focus (Pomodoro) sessions, the daily        *)
(* counters and the streak, in SQLite.  Each function of bot/db runs in    *)
(* one transaction ("with connect() as db"): an exception rolls back every *)
(* statement of the call.  The JobQueue holds run_once jobs until they are *)
(* due; a job's "at" is an instant in seconds since 2025-01-01 00:00.      *)
(***************************************************************************)
MaxSessions == 2
MaxAnswers == 2

\* /focus [minutes] [#tag]: a duration below the mid-ping threshold, the
\* threshold, and the default
FocusDurations == {10, 20, 25}
\* the tag is stored with the session and shown; nothing branches on it
FocusTags == {"spec"}

\* /focus_target <n>
FocusTargets == {1, 2}

NoStreak == [exists |-> FALSE, target_per_day |-> 1, last_date |-> NoneVal,
             streak_days |-> 0]

NoFObs == [op |-> "init", user |-> NoneVal, sid |-> NoneVal,
           flag |-> "none", result |-> "none"]

NoJobData == [session_id |-> NoneVal, user_id |-> NoneVal]

\* datetime.now(TZ) as an instant
Now == (today - 1) * 86400 + tod + clockShift

\* the calendar date and the time of day of an instant
DateOf(t) == (t \div 86400) + 1
TimeOf(t) == t % 86400

\* date.day for the dates of January and February 2025
DayOfMonth(d) == IF d <= 31 THEN d ELSE d - 31

\* start_focus_session: the table after the INSERT (lastrowid is its length)
start_focus_session(tbl, user_id, duration_min, tag, phone_commit) ==
    Append(tbl, [user_id |-> user_id, duration_min |-> duration_min,
                 tag |-> tag, phone_commit |-> phone_commit,
                 phone_free |-> "NULL", completed |-> 0])

\* the focus_daily row of (user_id, local_date) after "INSERT ... ON CONFLICT
\* DO NOTHING"
DailyRow(tbl, user_id, local_date) ==
    LET hit == {r \in tbl : r.user_id = user_id /\ r.local_date = local_date}
    IN  IF hit = {}
        THEN [user_id |-> user_id, local_date |-> local_date, sessions |-> 0,
              phone_free_sessions |-> 0]
        ELSE CHOOSE r \in hit : TRUE

\* What a SELECT returns for a non-NULL value of a column declared DATE:
\* connect() passes detect_types=PARSE_DECLTYPES, so sqlite3's converter
\* turns the stored ISO text into a datetime.date.
sqlite_date_column(v) == [type |-> "date", value |-> v]

\* date.fromisoformat: TypeError unless the argument is a str
date_fromisoformat(x) ==
    IF x.type = "str" THEN [exc |-> "", value |-> x.value]
    ELSE [exc |-> "TypeError", value |-> NoneVal]

\* complete_focus_session(session_id, phone_free, notes) on calendar date
\* day (datetime.now(IST).date()); phone_free is "True", "False" or "None".
\* [exc, ret, sessions, daily, streaks]: exc is the exception that leaves the
\* "with" block (the transaction is then rolled back), ret the pair returned.
complete_focus_session(sessTbl, dailyTbl, streakTbl, session_id, phone_free, day) ==
    LET keep == [exc |-> "", ret |-> <<0, 0>>, sessions |-> sessTbl,
                 daily |-> dailyTbl, streaks |-> streakTbl]
    IN  IF session_id \notin 1..Len(sessTbl) THEN keep
        ELSE
        LET user_id == sessTbl[session_id].user_id
            sess1 == [sessTbl EXCEPT
                        ![session_id].completed = 1,
                        ![session_id].phone_free =
                            IF phone_free = "None" THEN @
                            ELSE IF phone_free = "True" THEN "1" ELSE "0"]
            old == DailyRow(dailyTbl, user_id, day)
            row == [old EXCEPT
                      !.sessions = @ + 1,
                      !.phone_free_sessions =
                          @ + (IF phone_free = "True" THEN 1 ELSE 0)]
            daily1 == (dailyTbl \ {old}) \cup {row}
            s == streakTbl[user_id]
            target == IF s.exists THEN s.target_per_day ELSE 1
            parsed == IF s.exists /\ s.last_date # NoneVal
                      THEN date_fromisoformat(sqlite_date_column(s.last_date))
                      ELSE [exc |-> "", value |-> NoneVal]
            last_date == parsed.value
            streaks1 == IF s.exists THEN streakTbl
                        ELSE [streakTbl EXCEPT
                                ![user_id] = [NoStreak EXCEPT !.exists = TRUE]]
            streak_days == IF s.exists THEN s.streak_days ELSE 0
            done(days) == [exc |-> "",
                           ret |-> <<row.sessions, row.phone_free_sessions>>,
                           sessions |-> sess1, daily |-> daily1,
                           streaks |-> [streaks1 EXCEPT
                                          ![user_id].last_date = day,
                                          ![user_id].streak_days = days]]
        IN  IF parsed.exc # "" THEN [keep EXCEPT !.exc = parsed.exc]
            ELSE IF row.phone_free_sessions < target
            THEN [exc |-> "",
                  ret |-> <<row.sessions, row.phone_free_sessions>>,
                  sessions |-> sess1, daily |-> daily1, streaks |-> streaks1]
            ELSE IF last_date = NoneVal THEN done(streak_days + 1)
            ELSE IF last_date = day THEN done(streak_days)
            \* today_local.replace(day=today_local.day-1): day 0 is ValueError
            ELSE IF DayOfMonth(day) = 1 THEN [keep EXCEPT !.exc = "ValueError"]
            ELSE IF last_date = day - 1 THEN done(streak_days + 1)
            ELSE done(1)

\* set_focus_target: INSERT ... ON CONFLICT DO UPDATE SET target_per_day
set_focus_target(streakTbl, user_id, target_per_day) ==
    IF streakTbl[user_id].exists
    THEN [streakTbl EXCEPT ![user_id].target_per_day = target_per_day]
    ELSE [streakTbl EXCEPT
            ![user_id] = [NoStreak EXCEPT !.exists = TRUE,
                                          !.target_per_day = target_per_day]]

\* gamify.record_pomodoro: INSERT INTO pomodoros on the outer connection (1),
\* add_xp on a second connection (2), commit.  [ok, tbl, rows].  No handler
\* and no job of the bot calls it.
record_pomodoro(tbl, rows, user_id, duration_min, phone_free, tag) ==
    LET xp == 10 + (IF phone_free THEN 5 ELSE 0)
        r  == add_xp(tbl, 1, 2, user_id, xp)
    IN  IF r.ok
        THEN [ok |-> TRUE, tbl |-> r.tbl,
              rows |-> Append(rows, [user_id |-> user_id,
                                     duration_min |-> duration_min,
                                     phone_free |-> phone_free, tag |-> tag])]
        ELSE [ok |-> FALSE, tbl |-> tbl, rows |-> rows]

\* JobQueue.run_once(callback, when=<seconds>): due that many seconds from now
run_once(q, callback, when, data, name) ==
    q \cup {[name |-> name, callback |-> callback, at |-> Now + when,
             data |-> data]}

\* the jobs start_pomodoro schedules for session session_id
start_pomodoro(q, session_id, user_id, duration_min, ask_mid_ping) ==
    LET data == [session_id |-> session_id, user_id |-> user_id]
        mid == IF ask_mid_ping /\ duration_min >= 20
               THEN run_once(q, "_mid_ping", duration_min * 30, data,
                             <<"focus_mid", session_id>>)
               ELSE q
    IN  run_once(mid, "_end_ping", duration_min * 60, data,
                 <<"focus_end", session_id>>)

\* ApplicationBuilder().token(token).build() leaves concurrent_updates off:
\* the application handles one update at a time, so no handler starts while
\* another one is suspended at an await.  Jobs of the JobQueue and the
\* clock are not held back.
HandlerIdle == starting = {} /\ answering = {} /\ editing = {}

\* /focus [minutes] [#tag]: focus_cmd, then start_pomodoro with
\* commit_phone=True, ask_mid_ping=True, up to its "await send_message": the
\* user and the session are committed, the "Focus started" message is on
\* its way, and other tasks of the event loop run meanwhile.
focus_cmd(u, duration, tag) ==
    /\ HandlerIdle
    /\ Len(focusSessions) < MaxSessions
    /\ LET sid == Len(focusSessions) + 1
       IN  /\ dbUsers' = dbUsers \cup {u}
           /\ focusSessions' =
                start_focus_session(focusSessions, u, duration, tag, TRUE)
           /\ starting' = starting \cup {[session_id |-> sid, user_id |-> u,
                                          duration_min |-> duration]}
           /\ flast' = [op |-> "focus_cmd", user |-> u, sid |-> sid,
                        flag |-> "none", result |-> "sending"]
    /\ UNCHANGED <<focusDaily, focusStreaks, pomodoros, prompts, queries,
                   answering, editing,
                   tod, onceJobs>>

\* start_pomodoro after its await: the send succeeded and the pings are
\* scheduled from now, or it raised and start_pomodoro ends before any
\* run_once.
start_pomodoro_resume(s) ==
    /\ s \in starting
    /\ starting' = starting \ {s}
    /\ \E sendOk \in BOOLEAN :
        /\ onceJobs' = IF sendOk
                       THEN start_pomodoro(onceJobs, s.session_id, s.user_id,
                                           s.duration_min, TRUE)
                       ELSE onceJobs
        /\ flast' = [op |-> "focus", user |-> s.user_id,
                     sid |-> s.session_id, flag |-> "none",
                     result |-> IF sendOk THEN "started" ELSE "raised"]
    /\ UNCHANGED <<focusSessions, focusDaily, focusStreaks, dbUsers,
                   pomodoros, prompts, queries, answering, editing, tod>>

\* /focus_target <n>: max(1, n)
focus_target_cmd(u, n) ==
    /\ HandlerIdle
    /\ focusStreaks' = set_focus_target(focusStreaks, u, IF n > 1 THEN n ELSE 1)
    /\ flast' = [NoFObs EXCEPT !.op = "focus_target"]
    /\ UNCHANGED <<focusSessions, focusDaily, dbUsers, pomodoros, prompts,
                   starting, queries, answering, editing, tod, onceJobs>>

\* The JobQueue runs the earliest pending job when its time has come:
\* _mid_ping sends the halfway message, _end_ping sends the prompt with the
\* "Phone-free" / "Slipped" buttons (callback data pfree:<flag>:<session>).
RunFocusJob(j) ==
    /\ j \in onceJobs
    /\ j.callback \in {"_mid_ping", "_end_ping"}
    /\ \A k \in onceJobs : j.at <= k.at
    /\ DateOf(j.at) <= MaxDay
    /\ today' = IF j.at > Now THEN DateOf(j.at) ELSE today
    /\ tod' = IF j.at > Now THEN TimeOf(j.at) ELSE tod
    /\ onceJobs' = onceJobs \ {j}
    /\ \E sendOk \in BOOLEAN :
        /\ prompts' = IF j.callback = "_end_ping" /\ sendOk
                      THEN prompts \cup {j.data.session_id} ELSE prompts
        /\ flast' = [NoFObs EXCEPT !.op = j.callback,
                                   !.sid = j.data.session_id,
                                   !.result = IF sendOk THEN "sent"
                                              ELSE "raised"]
    /\ UNCHANGED <<focusSessions, focusDaily, focusStreaks, dbUsers,
                   pomodoros, starting, queries, answering, editing>>

\* the sessions counted in focus_daily, over all users and days
RECURSIVE Counted(_)
Counted(rows) ==
    IF rows = {} THEN 0
    ELSE LET r == CHOOSE x \in rows : TRUE
         IN  r.sessions + Counted(rows \ {r})

\* The user presses a button of a prompt that shows its buttons: Telegram
\* queues a callback query with the button's callback data
\* pfree:<flag>:<session>.  Both buttons can be pressed before the first
\* query is handled.  (Every handled query can be counted in focus_daily;
\* MaxAnswers bounds the presses.)
press_button(sid, flag) ==
    /\ sid \in prompts
    /\ Counted(focusDaily) + Cardinality(queries) + Cardinality(answering)
         < MaxAnswers
    /\ queries' = queries \cup {[sid |-> sid, flag |-> flag]}
    /\ flast' = [NoFObs EXCEPT !.op = "press"]
    /\ UNCHANGED <<focusSessions, focusDaily, focusStreaks, dbUsers,
                   pomodoros, prompts, starting, answering, editing, tod, onceJobs>>

\* handle_phone_free_callback up to its "await q.answer()": the handler
\* takes a delivered callback query, whether or not the prompt still shows
\* its buttons.
handle_phone_free_callback(sid, flag) ==
    /\ HandlerIdle
    /\ [sid |-> sid, flag |-> flag] \in queries
    /\ queries' = queries \ {[sid |-> sid, flag |-> flag]}
    /\ answering' = answering \cup {[sid |-> sid, flag |-> flag]}
    /\ flast' = [NoFObs EXCEPT !.op = "callback"]
    /\ UNCHANGED <<focusSessions, focusDaily, focusStreaks, dbUsers,
                   pomodoros, prompts, starting, editing, tod, onceJobs>>

\* handle_phone_free_callback after q.answer(), which is outside the try
\* block: complete_focus_session runs with the date of now and commits or
\* raises (the transaction is rolled back); then the handler awaits an edit
\* of the prompt, and jobs and the clock go on meanwhile.
phone_free_answered(a) ==
    /\ a \in answering
    /\ answering' = answering \ {a}
    /\ \E answerOk \in BOOLEAN :
        LET phone_free == IF a.flag = "1" THEN "True" ELSE "False"
            r == complete_focus_session(focusSessions, focusDaily,
                                        focusStreaks, a.sid, phone_free, today)
            u == focusSessions[a.sid].user_id
        IN  IF ~answerOk
            THEN /\ flast' = [NoFObs EXCEPT !.op = "pfree",
                                            !.result = "raised"]
                 /\ UNCHANGED <<focusSessions, focusDaily, focusStreaks,
                                editing>>
            ELSE /\ focusSessions' = r.sessions
                 /\ focusDaily' = r.daily
                 /\ focusStreaks' = r.streaks
                 /\ editing' = editing \cup {[sid |-> a.sid, flag |-> a.flag,
                                              user |-> u, exc |-> r.exc]}
                 /\ flast' = [op |-> "pfree", user |-> u, sid |-> a.sid,
                              flag |-> a.flag,
                              result |-> IF r.exc = "" THEN "committed"
                                         ELSE r.exc]
    /\ UNCHANGED <<dbUsers, pomodoros, prompts, starting, queries, tod,
                   onceJobs>>

\* The awaited edit of handle_phone_free_callback returns.  After a commit
\* the prompt is edited to "Logged: ..." (it has no buttons any more).
\* Everything raised inside the try block, by complete_focus_session or by
\* that edit, leads to a second edit, to "Error logging session: ..."; when
\* that one raises too the exception leaves the handler and the prompt keeps
\* its buttons.
phone_free_edited(e) ==
    /\ e \in editing
    /\ editing' = editing \ {e}
    /\ \E editOk \in BOOLEAN, errorEditOk \in BOOLEAN :
        LET logged == e.exc = "" /\ editOk
        IN  /\ prompts' = IF logged \/ errorEditOk
                          THEN prompts \ {e.sid} ELSE prompts
            /\ flast' = [op |-> "pfree_edit", user |-> e.user, sid |-> e.sid,
                         flag |-> e.flag,
                         result |-> IF logged THEN "Logged"
                                    ELSE IF e.exc = ""
                                    THEN "Logged, edit failed"
                                    ELSE e.exc]
    /\ UNCHANGED <<focusSessions, focusDaily, focusStreaks, dbUsers,
                   pomodoros, starting, queries, answering, tod, onceJobs>>

\* midnight passes while no job is due before it
Midnight ==
    /\ today < MaxDay
    /\ \A j \in onceJobs : j.at >= today * 86400
    /\ today' = today + 1
    /\ tod' = 0
    /\ flast' = [NoFObs EXCEPT !.op = "midnight"]
    /\ UNCHANGED <<focusSessions, focusDaily, focusStreaks, dbUsers,
                   pomodoros, prompts, starting, queries, answering, editing,
                   onceJobs>>

(***************************************************************************)
(* bot/scheduler.py.  The JobQueue is taken as the generic facility it is: *)
(* a run_daily job fires once on every eligible day when the wall clock of *)
(* TZ reads its time (days=None meaning every day), a run_once job fires   *)
(* at its instant, and jobs run one at a time.  Instants are seconds since *)
(* 2025-01-01 00:00 at the UTC offset TZ has before FallBackDay.           *)
(***************************************************************************)
\* V30X_TZ: unset (the default "Asia/Kolkata", whose offset never changes) or
\* a zone with daylight saving time
TimeZones == {"Asia/Kolkata", "Europe/London"}

\* 2025-10-26 as a day ordinal: Europe/London reads 02:00 summer time and
\* is set back to 01:00
FallBackDay == 299
TransInstant == (FallBackDay - 1) * 86400 + 7200

\* what the wall clock of zone tz is behind the pre-transition offset at
\* instant t
ShiftAt(tz, t) == IF tz = "Europe/London" /\ t >= TransInstant THEN 3600 ELSE 0

\* the wall-clock reading (as seconds since 2025-01-01 00:00) at instant t
Wall(tz, t) == t - ShiftAt(tz, t)

\* TZ.localize(datetime(d, s)): the instant of a naive wall-clock reading; in
\* the repeated hour pytz takes the second pass (is_dst=False)
localize(tz, d, s) ==
    LET w == (d - 1) * 86400 + s
    IN  IF tz = "Europe/London" /\ w >= TransInstant - 3600 THEN w + 3600
        ELSE w

\* date.weekday() of a day ordinal (2025-01-01 is a Wednesday, Monday is 0)
Weekday(d) == (d + 1) % 7

EveryDay == 0 .. 6

\* V30X_MANIFEST_HER_OFFSET: unset, a number of minutes, or not a number
HerOffsetEnvs == {"unset", "20", "soon"}

\* what bot/reminders is at import time: no such module (the source tree),
\* a module without send_weekly_reminder, or a module with both functions
RemindersModules == {"absent", "partial", "present"}

NoSObs == [op |-> "init", name |-> "none", hh |-> NoneVal, mm |-> NoneVal,
           result |-> "none"]

\* Mutant of import_reminders: the import without its try/except.
import_reminders_unguarded(mod) ==
    IF mod = "present"
    THEN [exc |-> "", send_reminder |-> TRUE, send_weekly_reminder |-> TRUE]
    ELSE [exc |-> "ImportError", send_reminder |-> FALSE,
          send_weekly_reminder |-> FALSE]

\* "from bot.reminders import send_reminder, send_weekly_reminder" inside
\* try/except Exception: both names are None unless both can be imported
import_reminders(mod) ==
    IF mod = "present"
    THEN [exc |-> "", send_reminder |-> TRUE, send_weekly_reminder |-> TRUE]
    ELSE [exc |-> "", send_reminder |-> FALSE, send_weekly_reminder |-> FALSE]

\* _env_time with V30X_<name> unset: the default, as seconds since midnight
env_time(default_h, default_m) == default_h * 3600 + default_m * 60

\* int(os.getenv("V30X_MANIFEST_HER_OFFSET", "1")), 1 when int() raises
her_offset(raw) == IF raw = "20" THEN 20 ELSE 1

\* Mutant of shift_time: the offset is dropped.
shift_time_unshifted(t, mins) == t

\* _shift_time: hour and minute of today's t plus mins minutes
shift_time(t, mins) == (t + mins * 60) % 86400

\* JobQueue.run_daily(callback, time, days, data, name)
run_daily(q, callback, t, days, data, name) ==
    Append(q, [name |-> name, callback |-> callback, time |-> t,
               days |-> days, data |-> data])

\* the jobs setup_jobs registers on queue q, in registration order
setup_jobs(q, offsetEnv) ==
    LET m0 == env_time(8, 0)
        m1 == env_time(8, 15)
        m2 == env_time(8, 30)
        off == her_offset(offsetEnv)
        q1 == run_daily(q, "_job_manifestation_0", m0, EveryDay, "none",
                        "manifestation_0")
        q2 == run_daily(q1, "_job_manifestation_1", m1, EveryDay, "none",
                        "manifestation_1")
        q3 == run_daily(q2, "_job_manifestation_2", m2, EveryDay, "none",
                        "manifestation_2")
        q4 == run_daily(q3, "_job_manifestation_her_0", shift_time(m0, off),
                        EveryDay, "none", "manifestation_her_0")
        q5 == run_daily(q4, "_job_manifestation_her_1", shift_time(m1, off),
                        EveryDay, "none", "manifestation_her_1")
        q6 == run_daily(q5, "_job_manifestation_her_2", shift_time(m2, off),
                        EveryDay, "none", "manifestation_her_2")
        q7 == run_daily(q6, "_job_card_prompt", env_time(10, 0), EveryDay,
                        "none", "card_prompt")
        q8 == run_daily(q7, "_job_card_reveal", env_time(19, 0), EveryDay,
                        "none", "card_reveal")
        q9 == run_daily(q8, "_job_send_reminder", env_time(7, 35), EveryDay,
                        "morning", "reminder_morning")
        q10 == run_daily(q9, "_job_send_reminder", env_time(10, 45), EveryDay,
                         "mid_morning", "reminder_mid_morning")
        q11 == run_daily(q10, "_job_send_reminder", env_time(13, 45), EveryDay,
                         "lunch", "reminder_lunch")
        q12 == run_daily(q11, "_job_send_reminder", env_time(17, 45), EveryDay,
                         "evening", "reminder_evening")
        q13 == run_daily(q12, "_job_send_reminder", env_time(21, 45), EveryDay,
                         "night", "reminder_night")
    IN  run_daily(q13, "_job_send_weekly_reminder", env_time(9, 0), {6},
                  "vitamin_d", "reminder_weekly_vitamin")

\* bot/remainders.py setup_reminders: the jobs it would register.  Nothing in
\* the source tree calls it.
setup_reminders(q) ==
    LET q1 == run_daily(q, "_morning", env_time(7, 45), EveryDay, "none",
                        "rem_morning")
        q2 == run_daily(q1, "_mid_morning", env_time(10, 45), EveryDay, "none",
                        "rem_mid_morning")
        q3 == run_daily(q2, "_afternoon", env_time(13, 45), EveryDay, "none",
                        "rem_afternoon")
        q4 == run_daily(q3, "_evening", env_time(17, 45), EveryDay, "none",
                        "rem_evening")
        q5 == run_daily(q4, "_night", env_time(21, 45), EveryDay, "none",
                        "rem_night")
    IN  run_daily(q5, "_weekly_sunday", env_time(9, 0), {6}, "none",
                  "rem_weekly_sunday")

\* the process starts (main): bot.scheduler is imported, then setup_jobs
\* registers the recurring jobs.  An exception of the import ends the
\* process before anything is registered.
main ==
    /\ jobs = << >>
    /\ LET imp == import_reminders(remindersMod)
       IN  /\ jobs' = IF imp.exc = "" THEN setup_jobs(<< >>, herOffsetEnv)
                      ELSE << >>
           /\ slast' = [NoSObs EXCEPT !.op = "main",
                                      !.result = IF imp.exc = "" THEN "started"
                                                 ELSE imp.exc]
    /\ UNCHANGED <<tod, onceJobs, tzone, clockShift, herOffsetEnv,
                   remindersMod, pending, dayLog>>

\* the offsets, in seconds, of the eight one-off jobs from the base time
AtOffsets ==
    [j \in {<<"at_manifestation", 0>>, <<"at_manifestation", 1>>,
            <<"at_manifestation", 2>>, <<"at_manifestation_her", 0>>,
            <<"at_manifestation_her", 1>>, <<"at_manifestation_her", 2>>,
            <<"at_card_prompt", 0>>, <<"at_card_reveal", 0>>} |->
        CASE j = <<"at_manifestation", 0>> -> 0
          [] j = <<"at_manifestation", 1>> -> 60
          [] j = <<"at_manifestation", 2>> -> 120
          [] j = <<"at_manifestation_her", 0>> -> 30
          [] j = <<"at_manifestation_her", 1>> -> 90
          [] j = <<"at_manifestation_her", 2>> -> 150
          [] j = <<"at_card_prompt", 0>> -> 180
          [] j = <<"at_card_reveal", 0>> -> 240]

\* the callback of each one-off job
AtCallback(j) ==
    CASE j = <<"at_manifestation", 0>> -> "_job_manifestation_0"
      [] j = <<"at_manifestation", 1>> -> "_job_manifestation_1"
      [] j = <<"at_manifestation", 2>> -> "_job_manifestation_2"
      [] j = <<"at_manifestation_her", 0>> -> "_job_manifestation_her_0"
      [] j = <<"at_manifestation_her", 1>> -> "_job_manifestation_her_1"
      [] j = <<"at_manifestation_her", 2>> -> "_job_manifestation_her_2"
      [] j = <<"at_card_prompt", 0>> -> "_job_card_prompt"
      [] j = <<"at_card_reveal", 0>> -> "_job_card_reveal"

\* schedule_one_off_at_clock_time: datetime(...) raises ValueError for an
\* hour or minute out of range; "at + timedelta(days=1)" adds 24 hours to the
\* localized datetime, which keeps the UTC offset it was localized with.
schedule_one_off_at_clock_time(q, tz, hh, mm) ==
    IF hh \notin 0 .. 23 \/ mm \notin 0 .. 59
    THEN [exc |-> "ValueError", q |-> q]
    ELSE LET at0 == localize(tz, today, hh * 3600 + mm * 60)
             at == IF at0 <= Now THEN at0 + 86400 ELSE at0
         IN  [exc |-> "",
              q |-> q \cup {[name |-> j, callback |-> AtCallback(j),
                             at |-> at + AtOffsets[j], data |-> NoJobData] :
                            j \in DOMAIN AtOffsets}]

\* /test_at HH:MM: every exception is caught and answered with "Error: ..."
test_at(hh, mm) ==
    /\ LET r == schedule_one_off_at_clock_time(onceJobs, tzone, hh, mm)
       IN  /\ onceJobs' = r.q
           /\ slast' = [op |-> "test_at", name |-> "none", hh |-> hh,
                        mm |-> mm,
                        result |-> IF r.exc = "" THEN "scheduled" ELSE r.exc]
    /\ UNCHANGED <<tod, tzone, clockShift, herOffsetEnv, remindersMod, jobs,
                   pending, dayLog>>

\* schedule_one_off_manifestations_in: the eight jobs and their distance in
\* seconds from t0 = now + minutes_from_now
InOffsets ==
    [j \in {<<"test_manifestation", 0>>, <<"test_manifestation", 1>>,
            <<"test_manifestation", 2>>, <<"test_manifestation_her", 0>>,
            <<"test_manifestation_her", 1>>, <<"test_manifestation_her", 2>>,
            <<"test_card_prompt", 0>>, <<"test_card_reveal", 0>>} |->
        CASE j = <<"test_manifestation", 0>> -> 0
          [] j = <<"test_manifestation", 1>> -> 60
          [] j = <<"test_manifestation", 2>> -> 120
          [] j = <<"test_manifestation_her", 0>> -> 30
          [] j = <<"test_manifestation_her", 1>> -> 90
          [] j = <<"test_manifestation_her", 2>> -> 150
          [] j = <<"test_card_prompt", 0>> -> 180
          [] j = <<"test_card_reveal", 0>> -> 240]

InCallback(j) ==
    CASE j = <<"test_manifestation", 0>> -> "_job_manifestation_0"
      [] j = <<"test_manifestation", 1>> -> "_job_manifestation_1"
      [] j = <<"test_manifestation", 2>> -> "_job_manifestation_2"
      [] j = <<"test_manifestation_her", 0>> -> "_job_manifestation_her_0"
      [] j = <<"test_manifestation_her", 1>> -> "_job_manifestation_her_1"
      [] j = <<"test_manifestation_her", 2>> -> "_job_manifestation_her_2"
      [] j = <<"test_card_prompt", 0>> -> "_job_card_prompt"
      [] j = <<"test_card_reveal", 0>> -> "_job_card_reveal"

\* t0 = now + timedelta(minutes=minutes_from_now) is arithmetic on the
\* instant; every job is a fixed number of seconds after it.
schedule_one_off_manifestations_in(q, minutes_from_now) ==
    LET t0 == Now + minutes_from_now * 60
    IN  q \cup {[name |-> j, callback |-> InCallback(j),
                 at |-> t0 + InOffsets[j], data |-> NoJobData] :
                j \in DOMAIN InOffsets}

\* int(context.args[0]) of the argument of /test_in
TestInArgs == {"", "1", "5", "soon"}
int_arg(a) ==
    CASE a = "1" -> [exc |-> "", value |-> 1]
      [] a = "5" -> [exc |-> "", value |-> 5]
      [] OTHER -> [exc |-> "ValueError", value |-> 0]

\* /test_in [minutes]: 5 minutes without an argument; every exception is
\* caught and answered with "Error: ..."
test_in(arg) ==
    /\ LET r == IF arg = "" THEN [exc |-> "", value |-> 5] ELSE int_arg(arg)
       IN  /\ onceJobs' = IF r.exc = ""
                          THEN schedule_one_off_manifestations_in(onceJobs,
                                                                  r.value)
                          ELSE onceJobs
           /\ slast' = [op |-> "test_in", name |-> "none", hh |-> 0,
                        mm |-> r.value,
                        result |-> IF r.exc = "" THEN "scheduled" ELSE r.exc]
    /\ UNCHANGED <<tod, tzone, clockShift, herOffsetEnv, remindersMod, jobs,
                   pending, dayLog>>

ManCallbacks ==
    {"_job_manifestation_0", "_job_manifestation_1", "_job_manifestation_2"}
HerCallbacks ==
    {"_job_manifestation_her_0", "_job_manifestation_her_1",
     "_job_manifestation_her_2"}

\* the index each manifestation callback passes
CallbackIndex(cb) ==
    IF cb \in {"_job_manifestation_0", "_job_manifestation_her_0"} THEN 0
    ELSE IF cb \in {"_job_manifestation_1", "_job_manifestation_her_1"} THEN 1
    ELSE 2

\* A job callback runs.  send_manifestation_for_her raises nothing, so the
\* "her" callbacks never reach their fallback.  _call_maybe_for_her calls the
\* card function once for for_her=False; for for_her=True the call with the
\* for_her keyword raises TypeError before the function runs, bot.cards has
\* no <name>_for_her, and the final fallback calls the same function again:
\* a card job is two calls, the second left pending here.  The reminder
\* wrappers return at once when their function is None and catch everything
\* the function raises.
RunCallback(name, cb) ==
    LET imp == import_reminders(remindersMod)
    IN  IF cb \in ManCallbacks
        THEN /\ send_manifestation(CallbackIndex(cb))
             /\ pending' = "none"
             /\ slast' = [NoSObs EXCEPT !.op = "job", !.name = name,
                                        !.result = "called"]
        ELSE IF cb \in HerCallbacks
        THEN /\ send_manifestation_for_her(CallbackIndex(cb))
             /\ pending' = "none"
             /\ slast' = [NoSObs EXCEPT !.op = "job", !.name = name,
                                        !.result = "called"]
        ELSE IF cb = "_job_card_prompt"
        THEN /\ send_card_prompt
             /\ pending' = "send_card_prompt"
             /\ slast' = [NoSObs EXCEPT !.op = "job", !.name = name,
                                        !.result = "called"]
        ELSE IF cb = "_job_card_reveal"
        THEN /\ send_card_reveal
             /\ pending' = "send_card_reveal"
             /\ slast' = [NoSObs EXCEPT !.op = "job", !.name = name,
                                        !.result = "called"]
        ELSE /\ pending' = "none"
             /\ UNCHANGED <<rotAll, gamVars>>
             /\ IF (cb = "_job_send_reminder" /\ imp.send_reminder)
                   \/ (cb = "_job_send_weekly_reminder"
                       /\ imp.send_weekly_reminder)
                THEN \E ok \in BOOLEAN :
                        slast' = [NoSObs EXCEPT !.op = "job", !.name = name,
                                    !.result = IF ok THEN "delivered"
                                               ELSE "logged"]
                ELSE slast' = [NoSObs EXCEPT !.op = "job", !.name = name,
                                             !.result = "skipped"]

\* the second call of a card job
SecondCall ==
    /\ pending # "none"
    /\ IF pending = "send_card_prompt" THEN send_card_prompt
       ELSE send_card_reveal
    /\ pending' = "none"
    /\ slast' = [NoSObs EXCEPT !.op = "second_call", !.name = pending,
                               !.result = "called"]
    /\ UNCHANGED <<tod, onceJobs, tzone, clockShift, herOffsetEnv,
                   remindersMod, jobs, dayLog>>

\* the names of the recurring jobs that ran today
FiredToday == {dayLog[i] : i \in DOMAIN dayLog}

\* recurring job i is due: the wall clock reads its time on one of its days
DailyDue(i) ==
    /\ jobs[i].time = tod
    /\ Weekday(today) \in jobs[i].days
    /\ jobs[i].name \notin FiredToday

\* the JobQueue runs a due recurring job
RunDailyJob(i) ==
    /\ i \in DOMAIN jobs
    /\ pending = "none"
    /\ DailyDue(i)
    /\ RunCallback(jobs[i].name, jobs[i].callback)
    /\ dayLog' = Append(dayLog, jobs[i].name)
    /\ UNCHANGED <<tod, onceJobs, tzone, clockShift, herOffsetEnv,
                   remindersMod, jobs>>

\* the JobQueue runs the earliest one-off job of /test_at or /test_in once
\* it is due
RunOnceJob(j) ==
    /\ j \in onceJobs
    /\ j.callback \notin {"_mid_ping", "_end_ping"}
    /\ pending = "none"
    /\ j.at <= Now
    /\ \A k \in onceJobs : j.at <= k.at
    /\ RunCallback(j.name[1], j.callback)
    /\ onceJobs' = onceJobs \ {j}
    /\ UNCHANGED <<tod, tzone, clockShift, herOffsetEnv, remindersMod, jobs,
                   dayLog>>

\* Time passes to instant t while no job is running and none is skipped.
PassTime(t) ==
    /\ t > Now
    /\ pending = "none"
    /\ \A j \in onceJobs : j.at >= t
    /\ \A i \in DOMAIN jobs : ~DailyDue(i)
    /\ \A i \in DOMAIN jobs :
          \A d \in today .. DateOf(Wall(tzone, t)) :
              LET due == localize(tzone, d, jobs[i].time)
              IN  ~(Now < due /\ due < t /\ Weekday(d) \in jobs[i].days)
    /\ today' = DateOf(Wall(tzone, t))
    /\ tod' = TimeOf(Wall(tzone, t))
    /\ clockShift' = ShiftAt(tzone, t)
    /\ dayLog' = IF DateOf(Wall(tzone, t)) = today THEN dayLog ELSE << >>
    /\ slast' = [NoSObs EXCEPT !.op = "time"]
    /\ UNCHANGED <<envVars, meVars, herVars, cardVars, last, concVars,
                   gamVars, onceJobs, tzone, herOffsetEnv, remindersMod, jobs,
                   pending>>

\* bot/cards.py clear_today_card_state, the testing helper: today_card.json
\* is unlinked; a failure is logged and leaves the file.  Nothing in the
\* bot calls it.
clear_today_card_state ==
    /\ \E unlinkOk \in BOOLEAN :
          todayCardFile' = IF unlinkOk THEN NoCardFile ELSE todayCardFile
    /\ last' = [NoObs EXCEPT !.op = "clear_today_card_state"]
    /\ UNCHANGED <<today, envVars, meVars, herVars, cards, concVars, gamVars>>

(***************************************************************************)
(* bot/handlers.py: /clear_cache                                           *)
(***************************************************************************)
\* The files clear_cache unlinks: BASE_DIR/data/used_manifestations_for_her.json
\* always; used_manifestations.json and today_manifestation.json under
\* Path(os.getenv("V30X_DATA_DIR", "")), which is the runtime directory of
\* bot/manifestation only when V30X_DATA_DIR is set.  The in-process caches
\* and today_card.json are not touched.
\* Each unlink is in its own try/except: when it raises, the handler
\* logs a warning, leaves that file and goes on with the next.  A file
\* that is not there is not unlinked.
clear_cache ==
    /\ \E unlinkHerOk \in (IF usedFileHer # {} THEN BOOLEAN ELSE {TRUE}),
          unlinkUsedOk \in (IF dataDir /\ usedFile # {} THEN BOOLEAN
                            ELSE {TRUE}),
          unlinkTodayOk \in (IF dataDir /\ todayFile # NoFile THEN BOOLEAN
                             ELSE {TRUE}) :
          /\ usedFileHer' = IF unlinkHerOk THEN {} ELSE usedFileHer
          /\ usedFile' = IF dataDir /\ unlinkUsedOk THEN {} ELSE usedFile
          /\ todayFile' = IF dataDir /\ unlinkTodayOk THEN NoFile
                          ELSE todayFile
    /\ last' = [NoObs EXCEPT !.op = "clear_cache"]
    /\ UNCHANGED <<today, envVars, mans, cachedDate, cachedMan, mansHer,
                   cachedTodayHer, cachedManHer, herPick, cardVars, concVars, gamVars>>

(***************************************************************************)
(* Environment: the process restarts, the calendar advances.               *)
(***************************************************************************)
\* A new process: module globals are re-initialised and the JobQueue starts
\* without the run_once jobs of the old process; files and databases stay.
\* Callback queries the old process had fetched are lost, the others are
\* delivered to the new one.
Restart ==
    /\ cachedDate' = NoneVal
    /\ cachedMan' = NoneVal
    /\ cachedTodayHer' = NoneVal
    /\ cachedManHer' = NoneVal
    /\ last' = [NoObs EXCEPT !.op = "restart"]
    /\ sessions' = [u \in Users |-> NoSession]
    /\ glast' = NoGObs
    /\ onceJobs' = {}
    /\ starting' = {}
    /\ answering' = {}
    /\ editing' = {}
    /\ queries' \in SUBSET queries
    /\ flast' = NoFObs
    /\ jobs' = << >>
    /\ pending' = "none"
    /\ slast' = [NoSObs EXCEPT !.op = "restart"]
    /\ UNCHANGED <<today, envVars, mans, usedFile, todayFile, mansHer,
                   usedFileHer, herPick, cardVars, concVars, now, users, calls,
                   gamifyTables, tod, focusSessions, focusDaily, focusStreaks, dbUsers,
                   pomodoros, prompts, tzone, clockShift, herOffsetEnv,
                   remindersMod, dayLog>>

\* midnight passes in the process's time zone, UTC, 5 h 30 min after that
\* of Asia/Kolkata
LocalMidnight ==
    /\ procZone = "UTC"
    /\ tod < KolkataOffset
    /\ tod' = KolkataOffset
    /\ last' = [NoObs EXCEPT !.op = "local_midnight"]
    /\ UNCHANGED <<today, envVars, meVars, herVars, cardVars, concVars,
                   gamVars, focusVars, onceJobs, jobVars>>

\* midnight passes
Tick ==
    /\ today < MaxDay
    /\ today' = today + 1
    /\ last' = [NoObs EXCEPT !.op = "tick"]
    /\ UNCHANGED <<envVars, meVars, herVars, cardVars, concVars, gamVars>>

\* the indices the scheduler jobs and /force_manifest pass
SendIndices == {0, 1, 2}

\* Files absent, module globals as assigned at import.
InitMe ==
    /\ usedFile = {}
    /\ todayFile = NoFile
    /\ cachedDate = NoneVal
    /\ cachedMan = NoneVal

InitHer ==
    /\ usedFileHer = {}
    /\ cachedTodayHer = NoneVal
    /\ cachedManHer = NoneVal
    /\ herPick = [date |-> NoneVal, man |-> NoneVal]

InitCards ==
    /\ todayCardFile = NoCardFile
    /\ last = NoObs

\* the database of bot/gamify as the program finds it at its first start:
\* no table, no in-call sessions
InitGamify ==
    /\ gamifyTables = FALSE
    /\ now = 0
    /\ users = [u \in Users |-> [exists |-> FALSE, xp |-> 0, level |-> 1]]
    /\ calls = << >>
    /\ sessions = [u \in Users |-> NoSession]
    /\ glast = NoGObs

\* empty focus tables (init_db), no prompt showing
InitFocus ==
    /\ focusSessions = << >>
    /\ focusDaily = {}
    /\ focusStreaks = [u \in Users |-> NoStreak]
    /\ dbUsers = {}
    /\ pomodoros = << >>
    /\ prompts = {}
    /\ queries = {}
    /\ starting = {}
    /\ answering = {}
    /\ editing = {}
    /\ flast = NoFObs

\* the default timezone and configuration, no job registered
InitJobs ==
    /\ onceJobs = {}
    /\ tzone = "Asia/Kolkata"
    /\ clockShift = 0
    /\ herOffsetEnv = "unset"
    /\ remindersMod = "absent"
    /\ jobs = << >>
    /\ pending = "none"
    /\ dayLog = << >>
    /\ slast = NoSObs

\* midnight, the process in the time zone of _today_local_date
InitSched ==
    /\ tod = 0
    /\ procZone = "Asia/Kolkata"
    /\ InitJobs

\* no concurrent callers under way
InitConc ==
    /\ lockHolder = NoneVal
    /\ pc = [t \in Callers |-> "start"]
    /\ snap = [t \in Callers |-> NoSnap]
    /\ ret = [t \in Callers |-> NoneVal]
    /\ pickLog = << >>

\* The two rotation modules share no state, so each is explored with the
\* other's pool empty (its sends then fail and change nothing of it): the
\* deployment with bot/manifestation's pool in any condition and any setting
\* of CHAT_ID and V30X_DATA_DIR, and the one with the "her" pool loaded and
\* any setting of CHAT_ID_HER.
Init ==
    /\ today = 1
    /\ InitMe /\ InitHer /\ InitCards /\ InitConc /\ InitGamify
    /\ InitFocus /\ InitJobs
    /\ cards = EmptyPool
    /\ \/ /\ mans \in {EmptyPool, GoodPool, BadPool}
          /\ mansHer = EmptyPool
          /\ chatId \in BOOLEAN
          /\ dataDir \in BOOLEAN
          /\ chatIdHer = TRUE
          /\ procZone = "Asia/Kolkata"
          /\ tod = 0
       \/ /\ mans = EmptyPool
          /\ mansHer = GoodPool
          /\ chatId = TRUE
          /\ dataDir = TRUE
          /\ chatIdHer \in BOOLEAN
          /\ procZone \in ProcessZones
          /\ tod = IF procZone = "UTC" THEN KolkataOffset ELSE 0

Next ==
    \/ \E index \in SendIndices :
          send_manifestation(index) /\ UNCHANGED otherVars
    \/ \E index \in SendIndices :
          send_manifestation_for_her(index) /\ UNCHANGED otherVars
    \/ clear_cache /\ UNCHANGED otherVars
    \/ Restart
    \/ Tick /\ tod' = 0 /\ UNCHANGED <<focusVars, onceJobs, jobVars>>
    \/ LocalMidnight

Spec == Init /\ [][Next]_vars

\* The card module on its own (both pools of the rotation modules empty).
InitCardsOnly ==
    /\ today = 1
    /\ InitMe /\ InitHer /\ InitCards /\ InitConc /\ InitGamify
    /\ InitFocus /\ InitSched
    /\ mans = EmptyPool
    /\ mansHer = EmptyPool
    /\ cards \in {EmptyPool, CardPool}
    /\ chatId \in BOOLEAN
    /\ chatIdHer \in BOOLEAN
    /\ dataDir \in BOOLEAN

NextCards ==
    \/ send_card_prompt /\ UNCHANGED otherVars
    \/ send_card_reveal /\ UNCHANGED otherVars
    \/ clear_today_card_state /\ UNCHANGED otherVars
    \/ clear_cache /\ UNCHANGED otherVars
    \/ Restart
    \/ Tick /\ UNCHANGED otherVars

SpecCards == InitCardsOnly /\ [][NextCards]_vars

\* Concurrent callers of get_today_manifestation on one calendar day, from
\* an empty cache and no today file; the used-id file holds any earlier
\* history.
InitCallers ==
    /\ today = 1
    /\ InitHer /\ InitCards /\ InitConc /\ InitGamify
    /\ InitFocus /\ InitSched
    /\ mans \in {EmptyPool, GoodPool, BadPool}
    /\ usedFile \in SUBSET {GoodPool[i].id : i \in 1..PoolSize}
    /\ todayFile = NoFile
    /\ cachedDate = NoneVal
    /\ cachedMan = NoneVal
    /\ mansHer = EmptyPool
    /\ cards = EmptyPool
    /\ chatId \in BOOLEAN
    /\ chatIdHer = TRUE
    /\ dataDir = TRUE

NextCallers ==
    \/ \E t \in Callers : Acquire(t) /\ UNCHANGED otherVars
    \/ \E t \in Callers : ReadState(t) /\ UNCHANGED otherVars
    \/ \E t \in Callers : PickAndStore(t) /\ UNCHANGED otherVars
    \/ \E t \in Callers : Release(t) /\ UNCHANGED otherVars

SpecCallers == InitCallers /\ [][NextCallers]_vars

\* The gamification commands on their own.
InitGamifyOnly ==
    /\ today = 1
    /\ InitMe /\ InitHer /\ InitCards /\ InitConc /\ InitGamify
    /\ InitFocus /\ InitSched
    /\ mans = EmptyPool
    /\ mansHer = EmptyPool
    /\ cards = EmptyPool
    /\ chatId = TRUE
    /\ chatIdHer = TRUE
    /\ dataDir = TRUE

\* the tag of /log_call is stored with the row; nothing branches on it
LogTags == {"team"}

NextGamify ==
    \/ \E u \in Users, minutes \in LogMinutes, tag \in LogTags :
          log_call_cmd(u, minutes, tag, "None") /\ UNCHANGED otherVars
    \/ \E u \in Users, tag \in Tags, notes \in Notes :
          start_call_cmd(u, tag, notes) /\ UNCHANGED otherVars
    \/ \E u \in Users : end_call_cmd(u) /\ UNCHANGED otherVars
    \/ \E u \in Users : my_xp_cmd(u) /\ UNCHANGED otherVars
    \/ \E u \in Users : weekly_stats_cmd(u) /\ UNCHANGED otherVars
    \/ init_gamify_tables /\ UNCHANGED otherVars
    \/ AdvanceClock /\ UNCHANGED otherVars
    \/ Restart

SpecGamify == InitGamifyOnly /\ [][NextGamify]_vars

\* The focus commands, their jobs and the prompt callback on their own.
InitFocusOnly ==
    /\ today = 1
    /\ InitMe /\ InitHer /\ InitCards /\ InitConc /\ InitGamify
    /\ InitFocus /\ InitSched
    /\ mans = EmptyPool
    /\ mansHer = EmptyPool
    /\ cards = EmptyPool
    /\ chatId = TRUE
    /\ chatIdHer = TRUE
    /\ dataDir = TRUE

rotNoDay == <<envVars, meVars, herVars, cardVars, last, concVars>>

\* /focus without a duration: 25 minutes
NextFocus ==
    \/ \E u \in Users, tag \in FocusTags :
          focus_cmd(u, 25, tag) /\ UNCHANGED <<today, rotNoDay, gamVars, jobVars>>
    \/ \E s \in starting :
          start_pomodoro_resume(s) /\ UNCHANGED <<today, rotNoDay, gamVars, jobVars>>
    \/ \E u \in Users, n \in FocusTargets :
          focus_target_cmd(u, n) /\ UNCHANGED <<today, rotNoDay, gamVars, jobVars>>
    \/ \E j \in onceJobs : RunFocusJob(j) /\ UNCHANGED <<rotNoDay, gamVars, jobVars>>
    \/ \E sid \in prompts, flag \in {"0", "1"} :
          press_button(sid, flag) /\ UNCHANGED <<today, rotNoDay, gamVars, jobVars>>
    \/ \E q \in queries :
          handle_phone_free_callback(q.sid, q.flag)
            /\ UNCHANGED <<today, rotNoDay, gamVars, jobVars>>
    \/ \E a \in answering :
          phone_free_answered(a) /\ UNCHANGED <<today, rotNoDay, gamVars, jobVars>>
    \/ \E e \in editing :
          phone_free_edited(e) /\ UNCHANGED <<today, rotNoDay, gamVars, jobVars>>
    \/ Midnight /\ UNCHANGED <<rotNoDay, gamVars, jobVars>>

SpecFocus == InitFocusOnly /\ [][NextFocus]_vars

\* /focus with any duration, and the pings it schedules; a restart loses the
\* pending pings.
NextPomodoro ==
    \/ \E u \in Users, duration \in FocusDurations, tag \in FocusTags :
          focus_cmd(u, duration, tag) /\ UNCHANGED <<today, rotNoDay, gamVars, jobVars>>
    \/ \E s \in starting :
          start_pomodoro_resume(s) /\ UNCHANGED <<today, rotNoDay, gamVars, jobVars>>
    \/ \E j \in onceJobs : RunFocusJob(j) /\ UNCHANGED <<rotNoDay, gamVars, jobVars>>
    \/ Midnight /\ UNCHANGED <<rotNoDay, gamVars, jobVars>>
    \/ Restart

SpecPomodoro == InitFocusOnly /\ [][NextPomodoro]_vars

\* /test_at and its one-off jobs on their own, around the night the clocks
\* of Europe/London go back.  The next /test_at comes when the jobs of the
\* last one have run, at one of the moments of TestInstants.
TestHours == {0, 1, 12, 23, 24}
TestMinutes == {0, 30, 50, 60}

\* the moments /test_at is sent: 00:10, 01:30, 02:30 and 12:00 by the
\* pre-transition clock of the day before FallBackDay and of FallBackDay
TestSeconds == {600, 5400, 9000, 43200}
TestInstants ==
    {(d - 1) * 86400 + s : d \in {FallBackDay - 1, FallBackDay},
                           s \in TestSeconds}

InitTestAt ==
    /\ today = FallBackDay - 1
    /\ InitMe /\ InitHer /\ InitCards /\ InitConc /\ InitGamify /\ InitFocus
    /\ mans = GoodPool
    /\ mansHer = EmptyPool
    /\ cards = EmptyPool
    /\ chatId = TRUE
    /\ chatIdHer = TRUE
    /\ dataDir = TRUE
    /\ tod = 0
    /\ procZone = "Asia/Kolkata"
    /\ onceJobs = {}
    /\ tzone \in TimeZones
    /\ clockShift = 0
    /\ herOffsetEnv = "unset"
    /\ remindersMod = "absent"
    /\ jobs = << >>
    /\ pending = "none"
    /\ dayLog = << >>
    /\ slast = NoSObs

NextTestAt ==
    \/ \E hh \in TestHours, mm \in TestMinutes :
          /\ Now \in TestInstants
          /\ onceJobs = {}
          /\ test_at(hh, mm)
          /\ UNCHANGED <<rotAll, gamVars, focusVars>>
    \/ \E arg \in TestInArgs :
          /\ Now \in TestInstants
          /\ onceJobs = {}
          /\ test_in(arg)
          /\ UNCHANGED <<rotAll, gamVars, focusVars>>
    \/ \E t \in TestInstants \cup {j.at : j \in onceJobs} :
          PassTime(t) /\ UNCHANGED focusVars
    \/ \E j \in onceJobs : RunOnceJob(j) /\ UNCHANGED focusVars
    \/ SecondCall /\ UNCHANGED focusVars

SpecTestAt == InitTestAt /\ [][NextTestAt]_vars

\* The recurring jobs: the process starts, the JobQueue runs each job at its
\* time of day, the process may restart at any moment (a restart takes no
\* time).  Each rotation is
\* explored with the other pools empty, in the source tree's configuration;
\* the other settings of V30X_MANIFEST_HER_OFFSET and of bot/reminders, and
\* a start on a Sunday (day 5), are explored with every pool empty.
SlotTimes ==
    LET q == setup_jobs(<< >>, herOffsetEnv)
    IN  {q[i].time : i \in DOMAIN q}

\* the moments of today a recurring job is registered for, and the next
\* midnight
DailyInstants ==
    {localize(tzone, today, s) : s \in SlotTimes}
        \cup (IF today < MaxDay THEN {localize(tzone, today + 1, 0)} ELSE {})

InitSchedOnly ==
    /\ InitMe /\ InitHer /\ InitCards /\ InitConc /\ InitGamify /\ InitFocus
    /\ chatId = TRUE
    /\ chatIdHer = TRUE
    /\ dataDir = TRUE
    /\ tod = 0
    /\ procZone = "Asia/Kolkata"
    /\ onceJobs = {}
    /\ tzone = "Asia/Kolkata"
    /\ clockShift = 0
    /\ jobs = << >>
    /\ pending = "none"
    /\ dayLog = << >>
    /\ slast = NoSObs
    /\ \/ /\ today = 1
          /\ herOffsetEnv = "unset"
          /\ remindersMod = "absent"
          /\ \/ mans = GoodPool /\ mansHer = EmptyPool /\ cards = EmptyPool
             \/ mans = EmptyPool /\ mansHer = GoodPool /\ cards = EmptyPool
             \/ mans = EmptyPool /\ mansHer = EmptyPool /\ cards = CardPool
       \/ /\ today \in {1, 5}
          /\ herOffsetEnv \in HerOffsetEnvs
          /\ remindersMod \in {"absent", "partial"}
          /\ mans = EmptyPool
          /\ mansHer = EmptyPool
          /\ cards = EmptyPool

NextSched ==
    \/ main /\ UNCHANGED <<rotAll, gamVars, focusVars>>
    \/ \E i \in DOMAIN jobs : RunDailyJob(i) /\ UNCHANGED focusVars
    \/ SecondCall /\ UNCHANGED focusVars
    \/ \E t \in DailyInstants :
          jobs # << >> /\ PassTime(t) /\ UNCHANGED focusVars
    \/ Restart

SpecSched == InitSchedOnly /\ [][NextSched]_vars

(***************************************************************************)
(* Properties                                                              *)
(***************************************************************************)
\* the rotation a send step belongs to: its pool and its used-id file
\* before and after the step
StepIsPick == last'.op \in {"send", "send_her"} /\ last'.path = "picked"
StepPool == IF last'.op = "send_her" THEN mansHer ELSE mans
StepUsedBefore == IF last'.op = "send_her" THEN usedFileHer ELSE usedFile
StepUsedAfter == IF last'.op = "send_her" THEN usedFileHer' ELSE usedFile'

\* C1: in both rotations a pick never returns an entry whose id is in the
\* persisted used set while an unused entry remains; the used set is cleared
\* only when every id of the pool is in it; and when the used set is saved it
\* becomes the former set (or the empty set after a full cycle) plus the
\* chosen id, so a cycle of N saved picks chooses each id exactly once.
\* When the save fails, persistence is not working: manifestation.py's
\* atomic write leaves the set as it was, manifestation_for_her.py's plain
\* write leaves it as it was or empty.
C1_PickWithoutRepeat ==
    [][StepIsPick =>
        LET cid == StepPool[last'.man].id
            exhausted == \A i \in 1..Len(StepPool) :
                             StepPool[i].id \in StepUsedBefore
        IN  /\ ~exhausted => cid \notin StepUsedBefore
            /\ last'.usedSaved =>
                 /\ StepUsedAfter =
                      (IF exhausted THEN {} ELSE StepUsedBefore) \cup {cid}
                 /\ ~exhausted =>
                      Cardinality(StepUsedAfter) = Cardinality(StepUsedBefore) + 1
            /\ ~last'.usedSaved =>
                 \/ StepUsedAfter = StepUsedBefore
                 \/ last'.op = "send_her" /\ StepUsedAfter = {}]_vars

\* a pick that completes a cycle: every id of the pool is now in the used set
C1_Witness ==
    /\ last.op = "send" /\ last.path = "picked" /\ last.usedSaved
    /\ mans = GoodPool
    /\ usedFile = {mans[i].id : i \in 1..Len(mans)}

\* C2: while today_manifestation.json holds today's date, every
\* send_manifestation uses the manifestation with the persisted id and leaves
\* the used set and the today file as they are (also right after a restart);
\* and while the in-process cache is of today, a send uses the cached entry,
\* which agrees with the today file.
C2_SameIdAllDay ==
    /\ [](cachedDate = today /\ cachedMan # NoneVal /\ todayFile.date = today
            => mans[cachedMan].id = todayFile.id)
    /\ [][last'.op = "send" =>
            /\ todayFile.date = today =>
                 /\ last'.man # NoneVal
                 /\ mans[last'.man].id = todayFile.id
                 /\ usedFile' = usedFile
                 /\ todayFile' = todayFile
            /\ (cachedDate = today /\ cachedMan # NoneVal) =>
                 /\ last'.man = cachedMan
                 /\ usedFile' = usedFile
                 /\ todayFile' = todayFile]_vars

\* a send after a restart that reused the persisted id and delivered a line
C2_Witness ==
    /\ last.op = "send" /\ last.path = "persisted" /\ last.outcome = "sent"
    /\ todayFile.date = today /\ mans[last.man].id = todayFile.id

\* C3 as claimed: a send_manifestation_for_her on a day for which the "her"
\* rotation already picked uses that pick, and picks no second id that day.
C3_HerSurvivesRestart ==
    [][(/\ last'.op = "send_her" /\ last'.man # NoneVal
        /\ herPick.date = LocalDate)
         => last'.man = herPick.man /\ last'.path # "picked"]_vars

\* C4: when today_card.json names a card of cards.json for today, a
\* send_card_reveal renders exactly that card (the same for both recipients)
\* and a send_card_prompt reuses it; neither rewrites the file.
C4_RevealSameCard ==
    [][(/\ last'.op \in {"prompt", "reveal"}
        /\ todayCardFile.date = today
        /\ \E i \in 1..Len(cards) :
              todayCardFile.id = (IF cards[i].id # NoId THEN cards[i].id
                                  ELSE cards[i].title))
         => /\ last'.man # NoneVal
            /\ todayCardFile.id = (IF cards[last'.man].id # NoId
                                   THEN cards[last'.man].id
                                   ELSE cards[last'.man].title)
            /\ last'.path = "persisted"
            /\ todayCardFile' = todayCardFile]_vars

\* a reveal of the persisted card (here one identified by its title) that
\* reached both recipients
C4_Witness ==
    /\ last.op = "reveal" /\ last.path = "persisted"
    /\ last.toMe /\ last.toHer
    /\ todayCardFile.date = today
    /\ cards[last.man].id = NoId /\ cards[last.man].title = todayCardFile.id

\* C6 as claimed: when the write of used_manifestations.json or of
\* today_manifestation.json fails, the manifestation returned is the
\* deterministic choice for the date and CHAT_ID.
C6_FallbackOnWriteFailure ==
    (last.op = "send" /\ last.path = "picked"
        /\ (~last.usedSaved \/ ~last.todaySaved))
      => last.man = deterministic_choice_by_date(mans, today, chatId)

\* C7: send_manifestation never lets an exception escape; and after a send
\* that failed (logged, or CHAT_ID unset) the next send of the same day gets
\* the same manifestation and changes neither the cache nor the files.
C7_SendNeverRaises ==
    /\ [](last.op = "send" => last.outcome # "raised")
    /\ [][(/\ last.op = "send" /\ last.outcome \in {"logged", "no_chat"}
           /\ last'.op = "send")
            => /\ last'.man = last.man
               /\ last'.outcome # "raised"
               /\ UNCHANGED <<cachedDate, cachedMan, todayFile, usedFile>>]_vars

\* a failed send (index outside the set, or transport error) served from the
\* day's cached choice
C7_Witness ==
    /\ last.op = "send" /\ last.outcome = "logged" /\ last.path = "cache"
    /\ last.man # NoneVal /\ cachedDate = today /\ cachedMan = last.man

\* C8 as claimed: the send_manifestation that follows /clear_cache performs a
\* fresh pick.
C8_ClearCacheForcesPick ==
    [][(last.op = "clear_cache" /\ last'.op = "send" /\ mans = GoodPool)
         => last'.path = "picked"]_vars

\* C5: get_today_manifestation runs under the module lock, so for every
\* interleaving of callers on one day, starting from an empty cache and no
\* today file, at most one caller is inside the body, all callers that have
\* returned got the same manifestation, at most one pick is made (exactly
\* one with a well-formed pool), and the used set gains exactly the picked
\* id when its write succeeds and is unchanged otherwise.
C5_CallersAgree ==
    /\ \A a, b \in Callers :
         (a # b /\ pc[a] \in {"locked", "read", "return"})
            => pc[b] \notin {"locked", "read", "return"}
    /\ \A a, b \in Callers :
         (pc[a] \in {"return", "done"} /\ pc[b] \in {"return", "done"})
            => ret[a] = ret[b]
    /\ Len(pickLog) <= 1
    /\ \A a \in Callers :
         (pc[a] \in {"return", "done"} /\ mans = GoodPool)
            => /\ Len(pickLog) = 1
               /\ ret[a] = pickLog[1].man
               /\ pickLog[1].saved => mans[ret[a]].id \in usedFile
    /\ \A i \in 1..Len(pickLog) :
         LET before == pickLog[i].before
             base == IF \A k \in 1..Len(mans) : mans[k].id \in before
                     THEN {} ELSE before
         IN  usedFile = IF pickLog[i].saved
                        THEN base \cup {mans[pickLog[i].man].id}
                        ELSE before

\* every caller has returned, all with the one manifestation picked, whose
\* id was added to a used set that already held another id
C5_Witness ==
    /\ Len(pickLog) = 1
    /\ pickLog[1].saved
    /\ \A a \in Callers : pc[a] = "done" /\ ret[a] = pickLog[1].man
    /\ Cardinality(usedFile) = 2

\* C9 as claimed: log_call ends with exactly one new calls row committed
\* and the user's XP increased by 15 (minutes >= 10) or 5.
C9_LogCallAwardsXp ==
    [][glast'.op = "log_call" =>
        LET u == glast'.user
            before == IF users[u].exists THEN users[u].xp ELSE 0
        IN  /\ glast'.result = "ok"
            /\ Len(calls') = Len(calls) + 1
            /\ calls'[Len(calls')].user = u
            /\ users'[u].xp = before + (IF glast'.minutes >= 10 THEN 15 ELSE 5)]_vars

\* C10: per user the in-call session is a two-state machine.  (/start_call
\* reaches start_call_session once register_user has succeeded, that is once
\* the gamify tables exist.)  A
\* start_call_session returns False exactly when the user has an active
\* session and then leaves every session (start time, tag, notes) as it is;
\* otherwise it returns True and the user has an active session.  An
\* end_call_session with no active session returns None and changes nothing;
\* on an active session it leaves the user without a session (so the next
\* start returns True) and touches no other user's session.
C10_SessionStateMachine ==
    [][/\ (glast'.op = "start_call" /\ gamifyTables) =>
            LET u == glast'.user
            IN  IF sessions[u].active
                THEN glast'.result = "False" /\ sessions' = sessions
                ELSE /\ glast'.result = "True"
                     /\ sessions'[u].active
                     /\ sessions'[u].start_ts = now
                     /\ \A v \in Users \ {u} : sessions'[v] = sessions[v]
       /\ glast'.op = "end_call" =>
            LET u == glast'.user
            IN  IF ~sessions[u].active
                THEN /\ glast'.result = "None"
                     /\ UNCHANGED <<sessions, users, calls>>
                ELSE /\ glast'.result # "None"
                     /\ ~sessions'[u].active
                     /\ \A v \in Users \ {u} : sessions'[v] = sessions[v]]_vars

\* a /start_call refused for a user whose session, started earlier with
\* other arguments, is still the active one, while another user has none
C10_Witness ==
    /\ glast.op = "start_call" /\ glast.result = "False"
    /\ sessions[glast.user].active
    /\ sessions[glast.user].start_ts < now
    /\ \E v \in Users : ~sessions[v].active /\ users[v].exists

\* C11 as claimed: once the end-of-session prompt of a /focus session has
\* been answered and logged, and no job is pending any more, the user has a
\* pomodoros row and at least 10 XP (15 when marked phone-free).
C11_PomodoroEarnsXp ==
    (flast.op = "pfree_edit" /\ flast.result = "Logged" /\ onceJobs = {})
      => /\ \E i \in 1..Len(pomodoros) : pomodoros[i].user_id = flast.user
         /\ users[flast.user].exists
         /\ users[flast.user].xp >= 10 + (IF flast.flag = "1" THEN 5 ELSE 0)

\* C12 as claimed: when the answer to a prompt brings the user's phone-free
\* count of today to at least target_per_day and the stored last_date is
\* yesterday, complete_focus_session succeeds, the session is marked
\* completed, streak_days grows by exactly 1 and last_date becomes today.
C12_StreakExtends ==
    [][(/\ flast'.op = "pfree" /\ flast'.result # "raised"
        /\ focusStreaks[flast'.user].exists
        /\ focusStreaks[flast'.user].last_date # NoneVal
        /\ focusStreaks[flast'.user].last_date = today - 1
        /\ DailyRow(focusDaily, flast'.user, today).phone_free_sessions
             + (IF flast'.flag = "1" THEN 1 ELSE 0)
             >= focusStreaks[flast'.user].target_per_day)
         => /\ flast'.result = "committed"
            /\ focusSessions'[flast'.sid].completed = 1
            /\ focusStreaks'[flast'.user].streak_days
                 = focusStreaks[flast'.user].streak_days + 1
            /\ focusStreaks'[flast'.user].last_date = today]_vars

\* the jobs a step adds to the JobQueue, by callback
NewJobs(cb) == {j \in onceJobs' \ onceJobs : j.callback = cb}

\* C15 as claimed: every /focus session, whatever its duration, gets a mid
\* ping at half the duration and an end ping at the full duration, the mid
\* ping strictly before the end ping: when start_pomodoro ends, both jobs
\* of the session it committed have been scheduled.
C15_EverySessionBothPings ==
    [][flast'.op = "focus" =>
        LET sid == flast'.sid
            d == focusSessions'[sid].duration_min
        IN  /\ \E m \in NewJobs("_mid_ping"), e \in NewJobs("_end_ping") :
                 /\ m.data.session_id = sid /\ e.data.session_id = sid
                 /\ 2 * (m.at - Now) = d * 60
                 /\ e.at - Now = d * 60
                 /\ m.at < e.at]_vars

\* C13: right after /test_at hh:mm has scheduled its jobs, the first job is
\* at hh:mm by the wall clock of the configured timezone, today or, when
\* today's hh:mm is not after now, tomorrow; that base time is strictly after
\* now and at most 24 hours after now; and the eight jobs are at fixed
\* non-negative offsets from it.
C13_OneOffAtClockTime ==
    (slast.op = "test_at" /\ slast.result = "scheduled") =>
        LET hm == slast.hh * 3600 + slast.mm * 60
            first == {j \in onceJobs : j.name = <<"at_manifestation", 0>>}
            base == (CHOOSE j \in first : TRUE).at
            passed == localize(tzone, today, hm) <= Now
        IN  /\ Cardinality(first) = 1
            /\ Cardinality(onceJobs) = 8
            /\ TimeOf(Wall(tzone, base)) = hm
            /\ DateOf(Wall(tzone, base)) = IF passed THEN today + 1 ELSE today
            /\ base > Now
            /\ base - Now <= 86400
            /\ \A j \in onceJobs :
                  /\ j.name \in DOMAIN AtOffsets
                  /\ j.at - base = AtOffsets[j.name]
                  /\ j.at - base >= 0

\* C14: with the default configuration the registered jobs are the
\* manifestation lines 0, 1, 2 for CHAT_ID at 08:00, 08:15, 08:30, each with
\* the same index for CHAT_ID_HER one minute later, the card draw at 10:00
\* and the card reveal at 19:00; and on every day the jobs that have run are
\* exactly those whose time has come, in that order, each calling its send
\* function.
C14_DailyOrder ==
    LET order == <<"manifestation_0", "manifestation_her_0",
                   "manifestation_1", "manifestation_her_1",
                   "manifestation_2", "manifestation_her_2",
                   "card_prompt", "card_reveal">>
        at == <<8 * 3600, 8 * 3600 + 60, 8 * 3600 + 900, 8 * 3600 + 960,
                8 * 3600 + 1800, 8 * 3600 + 1860, 10 * 3600, 19 * 3600>>
        cb == <<"_job_manifestation_0", "_job_manifestation_her_0",
                "_job_manifestation_1", "_job_manifestation_her_1",
                "_job_manifestation_2", "_job_manifestation_her_2",
                "_job_card_prompt", "_job_card_reveal">>
        named(k) == {i \in DOMAIN jobs : jobs[i].name = order[k]}
        InOrder(n) == n \in {order[k] : k \in 1 .. 8}
        ran == SelectSeq(dayLog, InOrder)
    IN  (herOffsetEnv = "unset" /\ jobs # << >>) =>
            /\ \A k \in 1 .. 8 :
                  /\ Cardinality(named(k)) = 1
                  /\ \A i \in named(k) :
                        /\ jobs[i].time = at[k]
                        /\ jobs[i].days = EveryDay
                        /\ jobs[i].callback = cb[k]
            /\ \A k \in 1 .. 7 : at[k] < at[k + 1]
            /\ Len(ran) <= 8
            /\ \A k \in 1 .. 8 :
                  /\ (k <= Len(ran)) => (ran[k] = order[k] /\ at[k] <= tod)
                  /\ (k > Len(ran)) => at[k] >= tod
            /\ (slast.op = "job" /\ InOrder(slast.name)) =>
                  last.op = CASE slast.name \in {order[1], order[3], order[5]}
                                   -> "send"
                              [] slast.name \in {order[2], order[4], order[6]}
                                   -> "send_her"
                              [] slast.name = order[7] -> "prompt"
                              [] slast.name = order[8] -> "reveal"

\* a second day has reached 19:00 with the default configuration and all
\* eight jobs have run, the lines for CHAT_ID taken from a loaded pool
C14_Witness ==
    /\ herOffsetEnv = "unset"
    /\ mans = GoodPool
    /\ today = 2
    /\ tod = 19 * 3600
    /\ pending = "none"
    /\ Len(dayLog) >= 8
    /\ dayLog[Len(dayLog)] = "card_reveal"
    /\ \E i, k \in DOMAIN dayLog :
          i < k /\ dayLog[i] = "manifestation_0"
                /\ dayLog[k] = "manifestation_her_0"

\* C16: the five daily reminder jobs and the weekly one are registered, and
\* every reminder job that runs (each slot on each day, the weekly one on
\* Sundays) delivers its reminder.
C16_RemindersDelivered ==
    LET slots == {"reminder_morning", "reminder_mid_morning",
                  "reminder_lunch", "reminder_evening", "reminder_night"}
        weekly == "reminder_weekly_vitamin"
    IN  /\ jobs # << >> =>
              /\ \A n \in slots :
                    \E i \in DOMAIN jobs :
                        jobs[i].name = n /\ jobs[i].days = EveryDay
              /\ \E i \in DOMAIN jobs :
                    jobs[i].name = weekly /\ jobs[i].days = {6}
        /\ (slast.op = "job" /\ slast.name \in slots \cup {weekly}) =>
              slast.result = "delivered"

\* C17: while bot.reminders or one of its two functions is missing, the
\* process still starts with every manifestation and card job registered,
\* and a reminder job that runs is skipped: it changes nothing but the
\* record of what ran.
C17_DefensiveScheduler ==
    [][(remindersMod \in {"absent", "partial"}) =>
          /\ slast'.op = "main" =>
                /\ slast'.result = "started"
                /\ \A n \in {"manifestation_0", "manifestation_1",
                             "manifestation_2", "manifestation_her_0",
                             "manifestation_her_1", "manifestation_her_2",
                             "card_prompt", "card_reveal"} :
                      \E i \in DOMAIN jobs' : jobs'[i].name = n
          /\ (/\ slast'.op = "job"
              /\ dayLog' # dayLog
              /\ slast'.name \in {"reminder_morning", "reminder_mid_morning",
                                  "reminder_lunch", "reminder_evening",
                                  "reminder_night", "reminder_weekly_vitamin"})
                => /\ slast'.result = "skipped"
                   /\ pending' = "none"
                   /\ jobs' = jobs
                   /\ UNCHANGED <<rotAll, gamVars, focusVars, schedVars>>
      ]_vars

\* on a Sunday, with a bot/reminders that lacks send_weekly_reminder, the
\* weekly reminder job has just run and was skipped, the fourteen jobs
\* being registered
C17_Witness ==
    /\ remindersMod = "partial"
    /\ Weekday(today) = 6
    /\ Len(jobs) = 14
    /\ slast.op = "job"
    /\ slast.name = "reminder_weekly_vitamin"
    /\ slast.result = "skipped"
    /\ "reminder_morning" \in FiredToday

====
